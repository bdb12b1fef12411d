---------------------------- MODULE ConsoleProofs ----------------------------
(***************************************************************************)
(* Proofs about the console (ConsoleMC), for every value of its constants: *)
(* any number of decoders, meters, items, tenants and tabs, and any number *)
(* of clicks and faults.  Each page has an inductive invariant of its own, *)
(* which its actions keep; those of the other pages leave its state alone. *)
(***************************************************************************)
EXTENDS ConsoleMC, SequenceTheorems, WellFoundedInduction, TLAPS

\* What is proved is safety: nothing below uses the fairness of the timers.
LEMMA ConsoleSafety == ConsoleSpec => ConsoleInit /\ [][ConsoleNext]_<<part, parts>>
BY PTL DEF ConsoleSpec

-----------------------------------------------------------------------------
(* The payload decoders (DecoderEditor) *)

ScriptText == Decoder \cup {"typed", "shengda", "template"}
DecoderRow == [script : ScriptText, profile : Profile \cup {None}]
FormData == [name : Decoder \cup {None}, script : ScriptText \cup {None}]

EditorShapes ==
    /\ editorStored \in [Decoder -> {None} \cup DecoderRow]
    /\ decoders \in [Decoder -> {None} \cup DecoderRow]
    /\ editorForm \in FormData /\ profile \in Profile \cup {None}
    /\ editorSelected \in Decoder \cup {None} /\ isNew \in BOOLEAN /\ late \in BOOLEAN
    /\ isNew => editorSelected = None
    /\ \A p \in editorPending :
          /\ p.kind \in {"create", "update"} => p.body \in FormData
          /\ p.kind = "update" => p.of \in Decoder
          /\ p.kind = "apply" => p.of \in Decoder /\ p.to \in Profile \cup {None}

\* A script that is the decoder's own, or was typed or imported for it.
OwnScript(d, s) == s \in {d, "typed", "shengda", None} \/ d \in editorCreated

\* So are those stored, listed, in the form and on their way to be stored.
OwnScripts ==
    /\ \A d \in Decoder : editorStored[d] # None => OwnScript(d, editorStored[d].script)
    /\ \A d \in Decoder : decoders[d] # None => OwnScript(d, decoders[d].script)
    /\ editorSelected # None => OwnScript(editorSelected, editorForm.script)
    /\ \A p \in editorPending : p.kind = "update" => OwnScript(p.of, p.body.script)

\* The profile the page shows is the one of the decoder selected, or was chosen for it.
ProfileFits ==
    editorSelected # None =>
        \/ chosenFor \in {editorSelected, "kept"} \/ editorSelected \in editorCreated
        \/ decoders[editorSelected] = None
        \/ decoders[editorSelected].profile \in {None, profile}

AppliesFit ==
    /\ \A p \in editorPending : p.kind = "apply" => p.chosen \/ p.own \in {None, p.to}
    /\ \A p \in Profile : codec[p] # None => codec[p].chosen \/ codec[p].own \in {None, p}

EditorInv ==
    /\ EditorShapes /\ (late \/ OwnScripts) /\ ProfileFits
    /\ AppliesFit /\ codec = [p \in Profile |-> codec[p]]

LEMMA EditorInitInv == Editor!DecodersInit => EditorInv
<1> SUFFICES ASSUME Editor!DecodersInit PROVE EditorInv
  OBVIOUS
<1> USE DEF Editor!DecodersInit
<1>1. editorStored \in [Decoder -> {None} \cup [script : Decoder, profile : Profile \cup {None}]]
      /\ \A d \in Decoder : editorStored[d] # None => editorStored[d].script = d
  OBVIOUS
<1>2. editorForm = [name |-> None, script |-> None]
  BY DEF Editor!Empty
<1>3. EditorShapes
  <2>1. editorStored \in [Decoder -> {None} \cup DecoderRow]
    BY <1>1 DEF DecoderRow, ScriptText
  <2>2. decoders \in [Decoder -> {None} \cup DecoderRow] /\ editorForm \in FormData
    BY <1>2 DEF FormData
  <2>3. \A p \in editorPending : p.kind = "list"
    OBVIOUS
  <2> QED
    BY <2>1, <2>2, <2>3 DEF EditorShapes
<1>4. OwnScripts
  BY <1>1 DEF OwnScripts, OwnScript
<1>5. ProfileFits /\ AppliesFit /\ codec = [p \in Profile |-> codec[p]]
  BY DEF ProfileFits, AppliesFit
<1> QED
  BY <1>3, <1>4, <1>5 DEF EditorInv

\* What a step that sends or drops a request keeps.
LEMMA Selecting ==
    ASSUME EditorInv, NEW d \in Decoder, NEW list \in [Decoder -> {None} \cup DecoderRow],
           list[d] # None, late \/ \A e \in Decoder : list[e] # None => OwnScript(e, list[e].script),
           Editor!Select(d, list[d]), decoders' = list, Editor!serverPart' = Editor!serverPart,
           UNCHANGED late,
           \A p \in editorPending' : p \in editorPending \/ p.kind = "codec"
    PROVE  EditorInv'
<1>1. list[d] \in DecoderRow /\ d \in Decoder
  OBVIOUS
<1>2. EditorShapes'
  BY <1>1 DEF EditorInv, EditorShapes, Editor!Select, Editor!serverPart, FormData, DecoderRow
<1>3. (late \/ OwnScripts)'
  BY <1>1 DEF EditorInv, OwnScripts, OwnScript, Editor!Select, Editor!serverPart
<1>4. ProfileFits'
  BY <1>1 DEF ProfileFits, Editor!Select, DecoderRow
<1>5. AppliesFit' /\ codec' = codec
  BY DEF EditorInv, AppliesFit, Editor!serverPart
<1> QED
  BY <1>2, <1>3, <1>4, <1>5 DEF EditorInv

\* A request that is sent, while the form and the records stay.
LEMMA Requesting ==
    ASSUME EditorInv, NEW request, Editor!Request(request),
           request.kind \in {"create", "update"} => request.body = editorForm,
           request.kind = "update" =>
              request.of = editorSelected /\ editorSelected # None,
           request.kind = "apply" =>
              /\ request.of \in Decoder /\ request.to \in Profile \cup {None}
              /\ request.chosen \/ request.own \in {None, request.to}
    PROVE  EditorInv'
<1>1. /\ UNCHANGED <<editorStored, editorCreated, codec, decoders, late, editorSelected, isNew,
                    editorForm, profile, chosenFor>>
      /\ editorPending' = editorPending \cup {request}
  BY DEF Editor!Request, Editor!Send, Editor!serverPart, Editor!formPart
<1> QED
  BY <1>1 DEF EditorInv, EditorShapes, OwnScripts, OwnScript, ProfileFits, AppliesFit

\* An answer that leaves the form and the list alone.
LEMMA EditorSteps ==
    ASSUME EditorInv,
           \/ \E d \in Decoder : Editor!ClickDecoder(d)
           \/ Editor!StartNew \/ Editor!ImportShengda \/ Editor!SaveDecoder
           \/ Editor!RemoveDecoder \/ Editor!ApplyToChirpStack
           \/ \E d \in Decoder : isNew /\ Editor!Edit([editorForm EXCEPT !.name = d])
           \/ Editor!Edit([editorForm EXCEPT !.script = "typed"])
           \/ \E p \in Profile : Editor!ChooseProfile(p)
    PROVE  EditorInv'
<1>1. ASSUME NEW d \in Decoder, Editor!ClickDecoder(d) PROVE EditorInv'
  BY <1>1, Selecting DEF Editor!ClickDecoder, EditorInv, EditorShapes, OwnScripts, Editor!serverPart
<1>2. CASE Editor!StartNew
  <2>1. /\ UNCHANGED <<editorStored, editorCreated, codec, decoders, late, editorForm, profile,
                       chosenFor>>
        /\ isNew' = TRUE /\ editorSelected' = None
        /\ editorPending' = editorPending \cup {[kind |-> "template"]}
    BY <1>2 DEF Editor!StartNew, Editor!Send, Editor!serverPart
  <2> QED
    BY <2>1 DEF EditorInv, EditorShapes, OwnScripts, OwnScript, ProfileFits, AppliesFit
<1>3. CASE Editor!ImportShengda
  <2>1. /\ UNCHANGED <<editorStored, editorCreated, codec, decoders, late, editorSelected, isNew,
                       editorForm, profile, chosenFor>>
        /\ editorPending' = editorPending \cup {[kind |-> "list", next |-> "import", of |-> None]}
    BY <1>3 DEF Editor!ImportShengda, Editor!Send, Editor!Loading, Editor!serverPart,
       Editor!formPart
  <2> QED
    BY <2>1 DEF EditorInv, EditorShapes, OwnScripts, OwnScript, ProfileFits, AppliesFit
<1>4. CASE Editor!SaveDecoder
  <2> DEFINE request == [kind |-> IF isNew THEN "create" ELSE "update", of |-> editorSelected,
                         body |-> editorForm]
  <2>1. Editor!Request(request) /\ (isNew \/ editorSelected # None)
    BY <1>4 DEF Editor!SaveDecoder, Editor!Editing
  <2>2. /\ request.kind = IF isNew THEN "create" ELSE "update"
        /\ request.of = editorSelected /\ request.body = editorForm
    OBVIOUS
  <2> HIDE DEF request
  <2> QED
    BY <2>1, <2>2, Requesting
<1>5. CASE Editor!RemoveDecoder
  <2> DEFINE request == [kind |-> "remove", of |-> editorSelected]
  <2>1. Editor!Request(request) /\ request.kind = "remove"
    BY <1>5 DEF Editor!RemoveDecoder
  <2> HIDE DEF request
  <2> QED
    BY <2>1, Requesting
<1>6. CASE /\ Editor!ApplyToChirpStack /\ profile # None
           /\ Editor!Request([kind |-> "apply", of |-> editorSelected, to |-> profile,
                 chosen |-> chosenFor = editorSelected,
                 own |-> IF decoders[editorSelected] = None \/ chosenFor = "kept"
                              \/ editorSelected \in editorCreated
                         THEN None ELSE decoders[editorSelected].profile])
  <2> DEFINE own == IF decoders[editorSelected] = None \/ chosenFor = "kept"
                       \/ editorSelected \in editorCreated
                    THEN None ELSE decoders[editorSelected].profile
             request == [kind |-> "apply", of |-> editorSelected, to |-> profile,
                         chosen |-> chosenFor = editorSelected, own |-> own]
  <2>1. Editor!Request(request) /\ editorSelected # None /\ profile # None
    BY <1>6 DEF Editor!ApplyToChirpStack
  <2>2. chosenFor = editorSelected \/ own \in {None, profile}
    BY <2>1 DEF EditorInv, ProfileFits
  <2> HIDE DEF own
  <2>3. /\ request.kind = "apply" /\ request.of = editorSelected
        /\ request.chosen = (chosenFor = editorSelected)
        /\ request.own = own /\ request.to = profile
    BY Zenon
  <2> HIDE DEF request
  <2>4. request.chosen \/ request.own \in {None, request.to}
    BY <2>2, <2>3, Zenon
  <2>5. editorSelected \in Decoder /\ profile \in Profile
    BY <2>1 DEF EditorInv, EditorShapes
  <2>6. request.kind \notin {"create", "update"}
    BY <2>3
  <2> QED
    BY <2>1, <2>3, <2>4, <2>5, <2>6, Requesting, Zenon
<1>a. CASE /\ Editor!ApplyToChirpStack
           /\ Editor!Request([kind |-> "apply", of |-> editorSelected, to |-> None,
                              chosen |-> TRUE, own |-> None])
  <2> DEFINE request == [kind |-> "apply", of |-> editorSelected, to |-> None,
                         chosen |-> TRUE, own |-> None]
  <2>1. /\ request.kind = "apply" /\ request.of = editorSelected
        /\ request.to = None /\ request.own = None
    OBVIOUS
  <2>2. editorSelected \in Decoder
    BY <1>a DEF EditorInv, EditorShapes, Editor!ApplyToChirpStack
  <2>3. Editor!Request(request)
    BY <1>a
  <2> HIDE DEF request
  <2>4. request.kind \notin {"create", "update"}
    BY <2>1
  <2> QED
    BY <2>1, <2>2, <2>3, <2>4, Requesting
<1>7. ASSUME NEW form, Editor!Edit(form), form \in FormData,
             form.script \in {editorForm.script, "typed"}
      PROVE  EditorInv'
  <2>1. /\ UNCHANGED <<editorStored, editorCreated, codec, decoders, late, editorSelected, isNew,
                       editorPending, profile, chosenFor>>
        /\ editorForm' = form
    BY <1>7 DEF Editor!Edit, Editor!serverPart
  <2> QED
    BY <1>7, <2>1 DEF EditorInv, EditorShapes, OwnScripts, OwnScript, ProfileFits, AppliesFit
<1>8. /\ \A d \in Decoder : /\ [editorForm EXCEPT !.name = d] \in FormData
                             /\ [editorForm EXCEPT !.name = d].script = editorForm.script
      /\ [editorForm EXCEPT !.script = "typed"] \in FormData
      /\ [editorForm EXCEPT !.script = "typed"].script = "typed"
  BY DEF EditorInv, EditorShapes, FormData, ScriptText
<1>9. ASSUME NEW p \in Profile, Editor!ChooseProfile(p) PROVE EditorInv'
  <2>1. /\ UNCHANGED <<editorStored, editorCreated, codec, decoders, late, editorSelected, isNew,
                       editorForm, editorPending>>
        /\ profile' = p /\ chosenFor' = editorSelected
    BY <1>9 DEF Editor!ChooseProfile, Editor!serverPart
  <2> QED
    BY <2>1 DEF EditorInv, EditorShapes, OwnScripts, OwnScript, ProfileFits, AppliesFit
<1>b. CASE Editor!ApplyToChirpStack
  BY <1>6, <1>a, <1>b DEF Editor!ApplyToChirpStack
<1> QED
  BY <1>1, <1>2, <1>3, <1>4, <1>5, <1>7, <1>8, <1>9, <1>b

\* The answers to requests.
LEMMA EditorAnswers ==
    ASSUME EditorInv, NEW p \in editorPending, Editor!Answer(p) PROVE EditorInv'
<1>1. ASSUME p.kind = "list", NEW list \in {editorStored, [d \in Decoder |-> None]},
             Editor!AnswerList(p, list)
      PROVE  EditorInv'
  <2>1. /\ list \in [Decoder -> {None} \cup DecoderRow] /\ decoders' = list
        /\ late \/ \A e \in Decoder : list[e] # None => OwnScript(e, list[e].script)
        /\ UNCHANGED <<editorStored, editorCreated, codec, late>>
        /\ \A q \in editorPending' : q \in editorPending \/ q.kind = "codec"
    BY <1>1 DEF EditorInv, EditorShapes, OwnScripts, Editor!AnswerList, Editor!serverPart
  <2>2. ASSUME NEW d \in Decoder, list[d] # None, Editor!Select(d, list[d]) PROVE EditorInv'
    BY <2>1, <2>2, Selecting DEF Editor!serverPart
  <2>3. CASE /\ UNCHANGED <<editorSelected, isNew, editorForm, profile>>
             /\ chosenFor' = IF chosenFor # editorSelected /\ Editor!BringsProfile(list)
                             THEN "kept" ELSE chosenFor
    <3>1. EditorShapes' /\ (late \/ OwnScripts)'
      BY <2>1, <2>3 DEF EditorInv, EditorShapes, OwnScripts, OwnScript
    <3>2. ProfileFits'
      BY <2>1, <2>3 DEF EditorInv, ProfileFits, Editor!BringsProfile
    <3>3. AppliesFit' /\ codec' = codec
      BY <2>1 DEF EditorInv, AppliesFit
    <3> QED
      BY <3>1, <3>2, <3>3 DEF EditorInv
  <2>4. \A d \in Editor!Follow(p, {e \in Decoder : list[e] # None}) :
           d \in Decoder /\ list[d] # None
    BY DEF Editor!Follow
  <2> QED
    BY <1>1, <2>2, <2>3, <2>4 DEF Editor!AnswerList
<1> USE DEF EditorInv, Editor!serverPart, Editor!formPart
<1>2. ASSUME NEW script \in {"template", None}, Editor!AnswerTemplate(p, script) PROVE EditorInv'
  <2>1. /\ editorForm' = [name |-> None, script |-> script] /\ late' = (late \/ ~isNew)
        /\ UNCHANGED <<editorStored, editorCreated, codec, decoders, editorSelected, isNew,
                       profile, chosenFor>>
        /\ editorPending' = editorPending \ {p}
    BY <1>2 DEF Editor!AnswerTemplate
  <2>2. editorForm' \in FormData
    BY <2>1 DEF FormData, ScriptText
  <2>3. EditorShapes'
    BY <2>1, <2>2 DEF EditorShapes
  <2>4. (late \/ OwnScripts)'
    BY <2>1 DEF OwnScripts, OwnScript, EditorShapes
  <2> QED
    BY <2>1, <2>3, <2>4 DEF ProfileFits, AppliesFit
<1>3. CASE Editor!AnswerCodec(p)
  <2>1. PICK d \in Decoder :
           /\ editorForm' = [name |-> d, script |-> "shengda"]
           /\ editorSelected' \in {d, None} /\ isNew' \in BOOLEAN
           /\ isNew' => editorSelected' = None
           /\ editorPending' = editorPending \ {p} /\ chosenFor' = "kept"
           /\ UNCHANGED <<editorStored, editorCreated, codec, decoders, profile, late>>
    BY <1>3 DEF Editor!AnswerCodec
  <2>2. editorForm' \in FormData /\ editorForm'.script = "shengda"
    BY <2>1 DEF FormData, ScriptText
  <2>3. EditorShapes'
    BY <2>1, <2>2 DEF EditorShapes
  <2>4. (late \/ OwnScripts)'
    BY <2>1, <2>2 DEF OwnScripts, OwnScript
  <2> QED
    BY <2>1, <2>3, <2>4 DEF ProfileFits, AppliesFit
<1>4. CASE p.kind = "create" /\ Editor!AnswerCreate(p)
  <2> DEFINE d == p.body.name
  <2>1. /\ editorStored' = [editorStored EXCEPT ![d] =
               [script |-> Editor!Script(p.body, "template"),
                profile |-> IF editorStored[d] = None THEN None ELSE editorStored[d].profile]]
        /\ editorCreated' = editorCreated \cup {d} /\ isNew' = FALSE /\ editorSelected' = d
        /\ late' \in BOOLEAN /\ (late => late')
        /\ editorPending' = (editorPending \ {p})
                            \cup {[kind |-> "list", next |-> "created", of |-> d]}
        /\ UNCHANGED <<codec, editorForm, profile, chosenFor, decoders>>
    BY <1>4, Zenon DEF Editor!AnswerCreate, Editor!Answered, Editor!Send, Editor!Loading
  <2>2. p.body \in FormData /\ p.body.script \in ScriptText \cup {None} /\ d \in Decoder \cup {None}
    BY <1>4 DEF EditorShapes, FormData
  <2> DEFINE row == [script |-> Editor!Script(p.body, "template"),
                     profile |-> IF editorStored[d] = None THEN None
                                 ELSE editorStored[d].profile]
  <2>3. d \in Decoder => row \in DecoderRow
    BY <2>2 DEF EditorShapes, DecoderRow, ScriptText, Editor!Script
  <2>4. editorStored' = [editorStored EXCEPT ![d] = row]
    BY <2>1
  <2> HIDE DEF row, d
  <2>5. EditorShapes'
    <3>1. editorStored' \in [Decoder -> {None} \cup DecoderRow]
      BY <2>3, <2>4 DEF EditorShapes
    <3>2. \A q \in editorPending' : q \in editorPending \/ q.kind = "list"
      BY <2>1
    <3> QED
      BY <2>1, <2>2, <3>1, <3>2 DEF EditorShapes
  <2>6. (late \/ OwnScripts)'
    <3>1. OwnScript(d, editorForm.script)' /\ \A e, t : OwnScript(e, t) => OwnScript(e, t)'
      BY <2>1 DEF OwnScript
    <3>2. \A q \in editorPending' : q.kind = "update" => q \in editorPending
      BY <2>1
    <3>3. \A e \in Decoder : e # d => editorStored'[e] = editorStored[e]
      BY <2>4 DEF EditorShapes
    <3>4. \A t : OwnScript(d, t)'
      BY <2>1 DEF OwnScript
    <3> QED
      BY <2>1, <3>1, <3>2, <3>3, <3>4 DEF OwnScripts
  <2> QED
    BY <2>1, <2>5, <2>6 DEF ProfileFits, AppliesFit
<1>5. CASE p.kind = "update" /\ Editor!AnswerUpdate(p)
  <2>1. /\ editorStored[p.of] # None
        /\ editorStored' = [editorStored EXCEPT ![p.of].script = Editor!Script(p.body, @)]
        /\ editorPending' = (editorPending \ {p})
                            \cup {[kind |-> "list", next |-> "updated", of |-> p.of]}
        /\ UNCHANGED <<editorCreated, codec, late, editorSelected, isNew, editorForm, profile,
                       chosenFor, decoders>>
    BY <1>5 DEF Editor!AnswerUpdate, Editor!Answered, Editor!Send, Editor!Loading
  <2>2. /\ p.of \in Decoder /\ editorStored[p.of] \in DecoderRow
        /\ p.body.script \in ScriptText \cup {None}
    BY <1>5, <2>1 DEF EditorShapes, FormData
  <2> DEFINE row == [editorStored[p.of] EXCEPT !.script = Editor!Script(p.body, @)]
  <2>3. /\ row \in DecoderRow
        /\ row.script = IF p.body.script = None THEN editorStored[p.of].script ELSE p.body.script
    BY <2>2 DEF DecoderRow, Editor!Script
  <2>4. editorStored' = [editorStored EXCEPT ![p.of] = row]
    BY <2>1
  <2> HIDE DEF row
  <2>5. EditorShapes'
    BY <2>1, <2>2, <2>3, <2>4 DEF EditorShapes
  <2>6. (late \/ OwnScripts)'
    <3>1. OwnScripts => /\ OwnScript(p.of, p.body.script)
                        /\ OwnScript(p.of, editorStored[p.of].script)
      BY <1>5, <2>1, <2>2 DEF OwnScripts
    <3>2. OwnScripts => OwnScript(p.of, row.script)
      BY <2>3, <3>1
    <3>3. \A e \in Decoder : editorStored'[e] = editorStored[e] \/ (e = p.of /\ editorStored'[e] = row)
      BY <2>2, <2>4 DEF EditorShapes
    <3>4. \A e, t : OwnScript(e, t)' <=> OwnScript(e, t)
      BY <2>1 DEF OwnScript
    <3>5. \A q \in editorPending' : q.kind = "update" => q \in editorPending
      BY <2>1
    <3> QED
      BY <2>1, <3>2, <3>3, <3>4, <3>5 DEF OwnScripts
  <2> QED
    BY <2>1, <2>5, <2>6 DEF ProfileFits, AppliesFit
<1>6. CASE Editor!AnswerRemove(p)
  <2>1. /\ editorStored' = [editorStored EXCEPT ![p.of] = None]
        /\ editorSelected' = None /\ isNew' = FALSE
        /\ editorForm' = [name |-> None, script |-> None]
        /\ editorPending' = (editorPending \ {p})
                            \cup {[kind |-> "list", next |-> "removed", of |-> None]}
        /\ UNCHANGED <<editorCreated, codec, profile, chosenFor, late, decoders>>
    BY <1>6 DEF Editor!AnswerRemove, Editor!Answered, Editor!Send, Editor!Loading, Editor!Empty
  <2>2. EditorShapes'
    <3>1. editorStored' \in [Decoder -> {None} \cup DecoderRow]
      BY <2>1 DEF EditorShapes
    <3>2. \A q \in editorPending' : q \in editorPending \/ q.kind = "list"
      BY <2>1
    <3>3. editorForm' \in FormData
      BY <2>1 DEF FormData
    <3> QED
      BY <2>1, <3>1, <3>2, <3>3 DEF EditorShapes
  <2>3. (late \/ OwnScripts)'
    <3>1. \A e \in Decoder : editorStored'[e] # None => editorStored'[e] = editorStored[e]
      BY <2>1 DEF EditorShapes
    <3>2. \A e, t : OwnScript(e, t)' <=> OwnScript(e, t)
      BY <2>1 DEF OwnScript
    <3>3. \A q \in editorPending' : q.kind = "update" => q \in editorPending
      BY <2>1
    <3> QED
      BY <2>1, <3>1, <3>2, <3>3 DEF OwnScripts
  <2> QED
    BY <2>1, <2>2, <2>3 DEF ProfileFits, AppliesFit
<1>7. CASE p.kind = "apply" /\ Editor!AnswerApply(p)
  <2>0. PICK to \in Profile :
          /\ IF p.to = None THEN Editor!Unknown(to) ELSE to = p.to
          /\ codec' = [codec EXCEPT ![to] = [chosen |-> p.chosen, own |-> p.own]]
          /\ editorStored' \in {editorStored, [editorStored EXCEPT ![p.of].profile = to]}
    BY <1>7, Zenon DEF Editor!AnswerApply
  <2>1. /\ codec' = [codec EXCEPT ![to] = [chosen |-> p.chosen, own |-> p.own]]
        /\ \/ editorStored' = editorStored
           \/ editorStored' = [editorStored EXCEPT ![p.of].profile = to]
        /\ editorPending' = (editorPending \ {p})
                            \cup {[kind |-> "list", next |-> "none", of |-> None]}
        /\ UNCHANGED <<editorCreated, late, editorSelected, isNew, editorForm, profile,
                       chosenFor, decoders>>
    BY <1>7, <2>0 DEF Editor!AnswerApply, Editor!Answered, Editor!Send, Editor!Loading
  <2> DEFINE row == [editorStored[p.of] EXCEPT !.profile = to]
             given == [chosen |-> p.chosen, own |-> p.own]
  <2>2. p.of \in Decoder /\ to \in Profile /\ editorStored[p.of] \in DecoderRow
    BY <1>7 DEF EditorShapes, Editor!AnswerApply
  <2>3. row \in DecoderRow /\ row.script = editorStored[p.of].script
    BY <2>2 DEF DecoderRow
  <2>4. given.chosen = p.chosen /\ given.own = p.own
    OBVIOUS
  <2>5. /\ editorStored' = editorStored \/ editorStored' = [editorStored EXCEPT ![p.of] = row]
        /\ codec' = [codec EXCEPT ![to] = given]
    BY <2>1
  <2> HIDE DEF row, given
  <2>6. EditorShapes'
    BY <2>1, <2>2, <2>3, <2>5 DEF EditorShapes
  <2>7. (late \/ OwnScripts)'
    <3>1. \A e \in Decoder : editorStored'[e] # None =>
             editorStored[e] # None /\ editorStored'[e].script = editorStored[e].script
      BY <1>7, <2>2, <2>3, <2>5 DEF EditorShapes, Editor!AnswerApply
    <3>2. \A e, t : OwnScript(e, t)' <=> OwnScript(e, t)
      BY <2>1 DEF OwnScript
    <3> QED
      BY <2>1, <3>1, <3>2 DEF OwnScripts
  <2>8. AppliesFit' /\ codec' = [q \in Profile |-> codec'[q]]
    <3>1. p.chosen \/ p.own \in {None, p.to}
      BY <1>7 DEF AppliesFit
    <3>2. given.chosen \/ given.own \in {None, to}
      BY <2>0, <2>4, <3>1, Zenon
    <3>3. \A q \in Profile : codec'[q] = codec[q] \/ (q = to /\ codec'[q] = given)
      BY <2>5
    <3>4. \A q \in Profile : codec'[q] # None => codec'[q].chosen \/ codec'[q].own \in {None, q}
      BY <3>2, <3>3, Zenon DEF AppliesFit
    <3>5. \A q \in editorPending' : q.kind = "apply" => q \in editorPending
      BY <2>1
    <3>6. codec' = [q \in Profile |-> codec'[q]]
      BY <2>5
    <3> QED
      BY <3>4, <3>5, <3>6 DEF AppliesFit
  <2> QED
    BY <2>1, <2>6, <2>7, <2>8 DEF ProfileFits
<1>8. CASE Editor!Refused(p)
  <2>1. /\ UNCHANGED <<editorStored, editorCreated, codec, decoders, late, editorSelected, isNew,
                       editorForm, profile, chosenFor>>
        /\ editorPending' = editorPending \ {p}
    BY <1>8 DEF Editor!Refused
  <2> QED
    BY <2>1 DEF EditorShapes, OwnScripts, OwnScript, ProfileFits, AppliesFit
<1> QED
  BY <1>1, <1>2, <1>3, <1>4, <1>5, <1>6, <1>7, <1>8 DEF Editor!Answer

LEMMA EditorNextInv == ASSUME EditorInv, [Editor!DecodersNext]_editorPart PROVE EditorInv'
<1>1. CASE UNCHANGED editorPart
  BY <1>1 DEF editorPart, EditorInv, EditorShapes, OwnScripts, OwnScript, ProfileFits, AppliesFit
<1>2. CASE Editor!DecodersNext
  BY <1>2, EditorSteps, EditorAnswers DEF Editor!DecodersNext
<1> QED
  BY <1>1, <1>2

LEMMA DecodersAreRight == EditorInv => Editor!DecodersKeptApart
<1> SUFFICES ASSUME EditorInv PROVE Editor!DecodersKeptApart
  OBVIOUS
<1>1. ASSUME NEW d \in Decoder, editorStored[d] # None, ~late
      PROVE  editorStored[d].script \in {d, "typed", "shengda"} \/ d \in editorCreated
  <2>1. editorStored[d].script # None
    BY <1>1, NoneIsNoScript DEF EditorInv, EditorShapes, DecoderRow, ScriptText
  <2> QED
    BY <1>1, <2>1 DEF EditorInv, OwnScripts, OwnScript
<1> QED
  BY <1>1 DEF EditorInv, AppliesFit, Editor!DecodersKeptApart

-----------------------------------------------------------------------------
(* The pages that create things (CreateForms) *)

\* A list on its way to the page.
ListForPage(p) == p.kind = "answer" /\ p.to = "list"

\* What leads to a list of what is stored now.
LeadsToList(p) ==
    \/ p.kind = "list"
    \/ p.kind = "answer" /\ p.to = "create" /\ p.ok
    \/ p.kind = "answer" /\ p.to = "remove"
    \/ ListForPage(p) /\ p.rows.version = formVersion

LeadsToPanel(p) == p.kind = "provision" \/ (p.kind = "answer" /\ p.to = "provision")

FormShapes ==
    /\ formVersion \in Nat /\ formFailed \in Nat /\ formCrossed \in BOOLEAN
    /\ \A p \in formPending : ListForPage(p) => p.rows.version \in 0..formVersion

RefusedStays == refused # None => formForm = refused

\* The list shown is the newest, or such a list is to come.
ListIsCurrent ==
    /\ \A p \in formPending : ListForPage(p) /\ p.rows.version = formVersion => p.rows.of = formStored
    /\ \/ formRows.version = formVersion /\ formRows.of = formStored
       \/ \E p \in formPending : LeadsToList(p)

PanelIsAsked ==
    formPanel \in {None, formAsked} \/ \E p \in formPending : LeadsToPanel(p)

FormInv ==
    /\ FormShapes
    /\ formCrossed \/ (RefusedStays /\ (formFailed > 0 \/ ListIsCurrent) /\ PanelIsAsked)

LEMMA FormInitInv == Form!FormsInit => FormInv
<1> SUFFICES ASSUME Form!FormsInit PROVE FormInv
  OBVIOUS
<1>1. /\ formVersion = 0 /\ formFailed = 0 /\ formCrossed = FALSE /\ formPanel = None /\ refused = None
      /\ formPending = {[kind |-> "list", of |-> None, at |-> 0]}
  BY DEF Form!FormsInit, Form!Load
<1>2. \A p \in formPending : p.kind = "list"
  BY <1>1
<1> QED
  BY <1>1, <1>2 DEF FormInv, FormShapes, RefusedStays, ListIsCurrent, PanelIsAsked, ListForPage,
     LeadsToList

\* Requests are added, and what is shown stays; or the form is left.
LEMMA FormRequests ==
    ASSUME FormInv, formPending \subseteq formPending',
           \A p \in formPending' : p \in formPending \/ p.kind # "answer",
           UNCHANGED <<formVersion, formStored, formRows, formFailed, formCrossed>>,
           refused' = None \/ UNCHANGED <<refused, formForm>>,
           \/ formPanel' \in {None, formPanel} /\ UNCHANGED formAsked
           \/ \E p \in formPending' : LeadsToPanel(p)
    PROVE  FormInv'
<1> USE DEF FormInv
<1>1. FormShapes'
  BY DEF FormShapes, ListForPage
<1>2. RefusedStays => RefusedStays'
  BY DEF RefusedStays
<1>3. ListIsCurrent => ListIsCurrent'
  BY DEF ListIsCurrent, ListForPage, LeadsToList
<1>4. PanelIsAsked => PanelIsAsked'
  BY DEF PanelIsAsked, LeadsToPanel
<1> QED
  BY <1>1, <1>2, <1>3, <1>4

LEMMA FormServed == ASSUME FormInv, NEW p \in formPending, Form!Serve(p) PROVE FormInv'
<1> USE DEF FormInv
<1>1. PICK ok \in BOOLEAN :
        LET taken == p.kind = "create" /\ "unique" \in formPage /\ formStored[p.of] > 0
            gone == p.kind = "remove" /\ formStored[p.of] = 0
            done == ok /\ ~taken /\ ~gone
        IN  /\ formFailed' = IF ok THEN formFailed ELSE formFailed + 1
            /\ formStored' = IF ~done THEN formStored
                             ELSE CASE p.kind = "create" -> [formStored EXCEPT ![p.of] = @ + 1]
                                    [] p.kind = "remove" -> [formStored EXCEPT ![p.of] = @ - 1]
                                    [] OTHER -> formStored
            /\ formVersion' = IF formStored' = formStored THEN formVersion ELSE formVersion + 1
            /\ formPending' = (formPending \ {p}) \cup
                  {[kind |-> "answer", to |-> p.kind, of |-> p.of, at |-> p.at, ok |-> done,
                    rows |-> [of |-> IF p.kind = "list" /\ ok THEN formStored ELSE Form!Nothing,
                              version |-> formVersion]]}
  BY DEF Form!Serve
<1> DEFINE done == /\ ok /\ ~(p.kind = "create" /\ "unique" \in formPage /\ formStored[p.of] > 0)
                   /\ ~(p.kind = "remove" /\ formStored[p.of] = 0)
           list == [of |-> IF p.kind = "list" /\ ok THEN formStored ELSE Form!Nothing,
                    version |-> formVersion]
           answer == [kind |-> "answer", to |-> p.kind, of |-> p.of, at |-> p.at, ok |-> done,
                      rows |-> list]
<1>12. PICK a : a = answer
  OBVIOUS
<1>2. formPending' = (formPending \ {p}) \cup {a}
  BY <1>1, <1>12
<1>3. /\ p.kind \in {"list", "create", "remove", "provision"}
      /\ UNCHANGED <<formForm, formRows, formPanel, refused, formAsked, formCrossed>>
  BY DEF Form!Serve
<1>4. /\ formFailed' = IF ok THEN formFailed ELSE formFailed + 1
      /\ formVersion' \in {formVersion, formVersion + 1}
      /\ formVersion' = formVersion => formStored' = formStored
      /\ formVersion' # formVersion => p.kind \in {"create", "remove"} /\ done
  BY <1>1 DEF FormShapes
<1> HIDE DEF done
<1>5. /\ a.kind = "answer" /\ a.to = p.kind /\ a.rows = list
      /\ a.rows.version = formVersion /\ (p.kind = "list" /\ ok => a.rows.of = formStored)
  BY <1>12
<1>6. a.ok = done
  BY <1>12, Zenon
<1> HIDE DEF answer, list
<1>7. FormShapes'
  BY <1>2, <1>3, <1>4, <1>5 DEF FormShapes, ListForPage
<1>8. RefusedStays => RefusedStays'
  BY <1>3 DEF RefusedStays
<1>9. ASSUME formFailed = 0, ListIsCurrent PROVE formFailed' > 0 \/ ListIsCurrent'
  <2>1. CASE ~ok
    BY <1>4, <1>9, <2>1
  <2>2. CASE ok /\ formVersion' # formVersion
    <3>1. formVersion' = formVersion + 1 /\ p.kind \in {"create", "remove"} /\ done
      BY <1>4, <2>2
    <3>2. a.ok
      BY <1>6, <3>1, Zenon
    <3>3. LeadsToList(a)'
      BY <1>5, <3>1, <3>2 DEF LeadsToList
    <3>4. \A q \in formPending' : ListForPage(q) => q.rows.version # formVersion'
      BY <1>2, <1>5, <3>1 DEF FormShapes, ListForPage
    <3> QED
      BY <1>2, <3>3, <3>4 DEF ListIsCurrent, ListForPage
  <2>3. CASE ok /\ formVersion' = formVersion
    <3>1. formStored' = formStored
      BY <1>4, <2>3
    <3>2. ASSUME NEW q \in formPending', ListForPage(q), q.rows.version = formVersion'
          PROVE  q.rows.of = formStored'
      <4>1. CASE q = a
        <5>1. p.kind = "list" /\ ok
          BY <1>5, <2>3, <3>2, <4>1 DEF ListForPage
        <5> QED
          BY <1>5, <3>1, <4>1, <5>1
      <4>2. CASE q \in formPending
        BY <1>9, <2>3, <3>1, <3>2, <4>2 DEF ListIsCurrent
      <4> QED
        BY <1>2, <4>1, <4>2
    <3>3. CASE formRows.version = formVersion /\ formRows.of = formStored
      BY <1>3, <2>3, <3>1, <3>2, <3>3 DEF ListIsCurrent, ListForPage
    <3>4. ASSUME NEW q \in formPending, LeadsToList(q) PROVE ListIsCurrent'
      <4>1. LeadsToList(q)'
        BY <2>3, <3>4 DEF LeadsToList
      <4>2. CASE q = p
        <5>1. p.kind = "list"
          BY <1>3, <3>4, <4>2 DEF LeadsToList, ListForPage
        <5>2. LeadsToList(a)' /\ a \in formPending'
          BY <1>2, <1>5, <2>3, <5>1 DEF LeadsToList, ListForPage
        <5> QED
          BY <3>2, <5>2 DEF ListIsCurrent, ListForPage
      <4>3. CASE q # p
        <5>1. q \in formPending'
          BY <1>2, <4>3
        <5> QED
          BY <3>2, <4>1, <5>1 DEF ListIsCurrent, ListForPage
      <4> QED
        BY <4>2, <4>3
    <3> QED
      BY <1>9, <3>3, <3>4 DEF ListIsCurrent
  <2> QED
    BY <2>1, <2>2, <2>3
<1>10. PanelIsAsked => PanelIsAsked'
  BY <1>2, <1>3, <1>5 DEF PanelIsAsked, LeadsToPanel
<1>11. formFailed > 0 => formFailed' > 0
  BY <1>4 DEF FormShapes
<1> QED
  BY <1>3, <1>7, <1>8, <1>9, <1>10, <1>11 DEF FormShapes

\* An answer that leaves the list shown as it is asks for another when it should.
LEMMA FormAnswered ==
    ASSUME FormInv, NEW p \in formPending, NEW sent, formPending' = (formPending \ {p}) \cup sent,
           \A q \in sent : q.kind = "list",
           LeadsToList(p) => sent # {},
           UNCHANGED <<formStored, formVersion, formFailed, formRows>>, formCrossed' \in BOOLEAN
    PROVE  /\ FormShapes' /\ (ListIsCurrent => ListIsCurrent')
           /\ PanelIsAsked /\ ~LeadsToPanel(p) =>
                 formPanel \in {None, formAsked} \/ \E q \in formPending' : LeadsToPanel(q)
<1>1. \A q \in formPending' : q \in formPending \/ q.kind = "list"
  OBVIOUS
<1>2. FormShapes'
  BY <1>1 DEF FormInv, FormShapes, ListForPage
<1>3. ASSUME ListIsCurrent PROVE ListIsCurrent'
  <2>1. \A q \in formPending' :
           ListForPage(q) /\ q.rows.version = formVersion' => q.rows.of = formStored'
    BY <1>1, <1>3 DEF ListIsCurrent, ListForPage
  <2>2. CASE formRows.version = formVersion /\ formRows.of = formStored
    BY <2>1, <2>2 DEF ListIsCurrent, ListForPage
  <2>3. ASSUME NEW q \in formPending, LeadsToList(q) PROVE \E r \in formPending' : LeadsToList(r)'
    <3>1. CASE q = p
      <4>1. PICK r : r \in sent
        BY <2>3, <3>1
      <4>2. r \in formPending' /\ r.kind = "list"
        BY <4>1
      <4> QED
        BY <4>2 DEF LeadsToList
    <3>2. CASE q # p
      <4>1. q \in formPending' /\ LeadsToList(q)'
        BY <2>3, <3>2 DEF LeadsToList
      <4> QED
        BY <4>1
    <3> QED
      BY <3>1, <3>2
  <2> QED
    BY <1>3, <2>1, <2>2, <2>3 DEF ListIsCurrent, ListForPage
<1>4. ASSUME PanelIsAsked, ~LeadsToPanel(p)
      PROVE  formPanel \in {None, formAsked} \/ \E q \in formPending' : LeadsToPanel(q)
  BY <1>4 DEF PanelIsAsked
<1> QED
  BY <1>2, <1>3, <1>4

LEMMA FormDelivered == ASSUME FormInv, NEW p \in formPending, Form!Deliver(p) PROVE FormInv'
<1>1. p.kind = "answer" /\ UNCHANGED <<formPage, formStored, formVersion, formFailed, formClicks>>
  BY DEF Form!Deliver
<1> DEFINE load == [kind |-> "list", of |-> None, at |-> p.at]
<1>7. load.kind = "list"
  OBVIOUS
<1> HIDE DEF load
<1>8. formCrossed \in BOOLEAN
  BY DEF FormInv, FormShapes
<1>2. CASE p.to = "list" /\ Form!DeliverList(p)
  <2>1. /\ formRows' = p.rows /\ formPending' = formPending \ {p}
        /\ formCrossed' = (formCrossed \/ p.rows.version < formRows.version)
        /\ UNCHANGED <<formForm, formPanel, refused, formAsked>>
    BY <1>2 DEF Form!DeliverList
  <2>2. FormShapes'
    BY <1>1, <2>1 DEF FormInv, FormShapes, ListForPage
  <2>3. ListForPage(p) /\ p.rows.version \in 0..formVersion
    BY <1>1, <1>2 DEF FormInv, FormShapes, ListForPage
  <2>4. ASSUME ListIsCurrent, ~formCrossed' PROVE ListIsCurrent'
    <3>1. \A q \in formPending' :
             ListForPage(q) /\ q.rows.version = formVersion' => q.rows.of = formStored'
      BY <1>1, <2>1, <2>4 DEF ListIsCurrent, ListForPage
    <3>2. CASE p.rows.version = formVersion
      BY <1>1, <2>1, <2>3, <2>4, <3>1, <3>2 DEF ListIsCurrent, ListForPage
    <3>3. CASE p.rows.version # formVersion
      <4>5. ~(p.rows.version < formRows.version)
        BY <2>1, <2>4, Zenon
      <4>6. formVersion \in Nat
        BY DEF FormInv, FormShapes
      <4>1. ~(formRows.version = formVersion)
        BY <2>3, <3>3, <4>5, <4>6
      <4>2. PICK q \in formPending : LeadsToList(q)
        BY <2>4, <4>1 DEF ListIsCurrent
      <4>3. q # p
        BY <1>1, <1>2, <3>3, <4>2 DEF LeadsToList
      <4>4. q \in formPending' /\ LeadsToList(q)'
        BY <1>1, <2>1, <4>2, <4>3 DEF LeadsToList
      <4> QED
        BY <3>1, <4>4 DEF ListIsCurrent, ListForPage
    <3> QED
      BY <3>2, <3>3
  <2>5. (RefusedStays => RefusedStays') /\ (PanelIsAsked => PanelIsAsked')
    BY <1>1, <1>2, <2>1 DEF RefusedStays, PanelIsAsked, LeadsToPanel
  <2>6. formCrossed => formCrossed'
    BY <2>1
  <2> QED
    BY <1>1, <2>2, <2>4, <2>5, <2>6 DEF FormInv
<1>3. CASE p.to = "create" /\ p.ok /\ Form!DeliverCreated(p)
  <2>1. /\ formPending' = (formPending \ {p}) \cup {load}
        /\ \/ formPanel' = p.of /\ formAsked' = p.of
           \/ UNCHANGED <<formPanel, formAsked>>
        /\ refused' = IF formForm = p.of THEN None ELSE refused
        /\ formCrossed' = (formCrossed \/ formForm # p.of)
        /\ UNCHANGED formRows
    BY <1>3 DEF Form!DeliverCreated, Form!Load, load
  <2>2. formCrossed' \in BOOLEAN /\ (formCrossed => formCrossed') /\ ~LeadsToPanel(p)
    BY <1>1, <1>3, <1>8, <2>1 DEF LeadsToPanel
  <2>3. /\ FormShapes' /\ (ListIsCurrent => ListIsCurrent')
        /\ PanelIsAsked =>
              formPanel \in {None, formAsked} \/ \E q \in formPending' : LeadsToPanel(q)
    BY <1>1, <1>7, <2>1, <2>2, FormAnswered
  <2>4. RefusedStays => formCrossed' \/ RefusedStays'
    BY <2>1 DEF RefusedStays
  <2>5. PanelIsAsked => PanelIsAsked'
    BY <2>1, <2>3 DEF PanelIsAsked, LeadsToPanel
  <2> QED
    BY <1>1, <2>2, <2>3, <2>4, <2>5 DEF FormInv
<1>9. ASSUME NEW sent \in {{}, {load}}, formPending' = (formPending \ {p}) \cup sent,
             sent = {} => ~LeadsToList(p),
             refused' \in {refused, formForm},
             UNCHANGED <<formForm, formRows, formAsked>>, formCrossed' \in BOOLEAN,
             formCrossed => formCrossed',
             \/ formCrossed' \/ formPanel' \in {None, formAsked}
             \/ ~LeadsToPanel(p) /\ UNCHANGED formPanel
      PROVE  FormInv'
  <2>3. /\ FormShapes' /\ (ListIsCurrent => ListIsCurrent')
        /\ PanelIsAsked /\ ~LeadsToPanel(p) =>
              formPanel \in {None, formAsked} \/ \E q \in formPending' : LeadsToPanel(q)
    BY <1>1, <1>7, <1>9, FormAnswered
  <2>4. RefusedStays => RefusedStays'
    BY <1>9 DEF RefusedStays
  <2>5. PanelIsAsked => formCrossed' \/ PanelIsAsked'
    BY <1>9, <2>3 DEF PanelIsAsked, LeadsToPanel
  <2> QED
    BY <1>1, <1>9, <2>3, <2>4, <2>5 DEF FormInv
<1>4. CASE p.to = "create" /\ ~p.ok /\ Form!DeliverRefused(p)
  <2>1. ~LeadsToList(p) /\ ~LeadsToPanel(p) /\ formPending' = (formPending \ {p}) \cup {}
    BY <1>1, <1>4 DEF Form!DeliverRefused, LeadsToList, LeadsToPanel, ListForPage
  <2> QED
    BY <1>4, <1>8, <1>9, <2>1 DEF Form!DeliverRefused
<1>5. CASE p.to = "remove" /\ Form!DeliverRemoved(p)
  <2>1. ~LeadsToPanel(p) /\ formPending' = (formPending \ {p}) \cup {load}
    BY <1>1, <1>5 DEF LeadsToPanel, Form!DeliverRemoved, Form!Load, load
  <2> QED
    BY <1>5, <1>8, <1>9, <2>1 DEF Form!DeliverRemoved
<1>6. CASE p.to = "provision" /\ Form!DeliverProvision(p)
  <2>1. ~LeadsToList(p) /\ formPending' = (formPending \ {p}) \cup {}
    BY <1>1, <1>6 DEF Form!DeliverProvision, LeadsToList, ListForPage
  <2>2. formCrossed' = (formCrossed \/ p.of # formAsked) /\ formPanel' = IF p.ok THEN p.of ELSE None
    BY <1>6 DEF Form!DeliverProvision
  <2> QED
    BY <1>6, <1>8, <1>9, <2>1, <2>2 DEF Form!DeliverProvision
<1> QED
  BY <1>2, <1>3, <1>4, <1>5, <1>6 DEF Form!Deliver

LEMMA FormNextInv == ASSUME FormInv, [Form!FormsNext]_formPart PROVE FormInv'
<1>1. CASE UNCHANGED formPart
  BY <1>1 DEF formPart, FormInv, FormShapes, RefusedStays, ListIsCurrent, PanelIsAsked, ListForPage,
     LeadsToList, LeadsToPanel
<1>2. CASE Form!ToggleForm
  <2>1. /\ \/ UNCHANGED <<formForm, refused, formPending>>
           \/ refused' = None /\ formPending' = formPending \cup {Form!Load(formClicks)}
        /\ UNCHANGED <<formPage, formRows, formPanel, formStored, formVersion, formAsked,
                       formCrossed, formFailed>>
    BY <1>2 DEF Form!ToggleForm
  <2>2. Form!Load(formClicks).kind = "list"
    BY DEF Form!Load
  <2> QED
    BY <2>1, <2>2, FormRequests
<1>3. ASSUME NEW n \in Name, Form!Type(n) PROVE FormInv'
  BY <1>3, FormRequests DEF Form!Type
<1>4. ASSUME NEW kind \in {"create", "remove", "provision"}, NEW n, Form!Request(kind, n),
             \/ formPanel' \in {None, formPanel} /\ UNCHANGED formAsked
             \/ kind = "provision"
      PROVE  FormInv'
  <2> DEFINE request == [kind |-> kind, of |-> n, at |-> formClicks]
  <2>1. /\ formPending' = formPending \cup {request}
        /\ UNCHANGED <<formForm, formRows, formStored, formVersion, refused, formCrossed,
                       formFailed>>
    BY <1>4 DEF Form!Request
  <2>2. request.kind = kind
    OBVIOUS
  <2> HIDE DEF request
  <2> QED
    BY <1>4, <2>1, <2>2, FormRequests DEF LeadsToPanel
<1>5. CASE Form!Create
  BY <1>4, <1>5 DEF Form!Create
<1>6. ASSUME NEW n \in Name, Form!Remove(n) \/ Form!ShowProvision(n) PROVE FormInv'
  BY <1>4, <1>6 DEF Form!Remove, Form!ShowProvision
<1> QED
  BY <1>1, <1>2, <1>3, <1>5, <1>6, FormServed, FormDelivered DEF Form!FormsNext

LEMMA PageIsRight == FormInv => Form!PageAgrees
BY DEF FormInv, RefusedStays, ListIsCurrent, PanelIsAsked, Form!PageAgrees

\* What the user types stays with the decoder, or the form, it was typed for, in
\* the payload decoders' page and in the pages that create things.
THEOREM FormsStayApart == ConsoleSpec => []FormsKeptApart
<1> DEFINE Inv == EditorInv /\ FormInv
<1>1. ConsoleInit => Inv
  BY EditorInitInv, FormInitInv DEF ConsoleInit
<1>2. Inv /\ [ConsoleNext]_<<part, parts>> => Inv'
  BY EditorNextInv, FormNextInv DEF ConsoleNext, parts
<1>3. Inv => FormsKeptApart
  BY DecodersAreRight, PageIsRight DEF FormsKeptApart
<1> QED
  BY <1>1, <1>2, <1>3, ConsoleSafety, PTL

-----------------------------------------------------------------------------
(* The water meters and their twin (WaterConsole, MeterTwin) *)

\* The meter the user chose last is the one selected, unless a list took it away.
WaterInv ==
    /\ stolen \in BOOLEAN
    /\ stolen \/ waterChosen \in {None, waterSelected}
    /\ Water!CommandToChosen

LEMMA WaterNextInv == ASSUME WaterInv, [Water!WaterNext]_waterPart PROVE WaterInv'
<1> USE DEF WaterInv, Water!CommandToChosen, Water!shown
<1>1. CASE UNCHANGED waterPart
  BY <1>1 DEF waterPart
<1>2. ASSUME NEW m \in Meter, Water!ClickMeter(m) PROVE WaterInv'
  BY <1>2 DEF Water!ClickMeter
<1>3. CASE Water!Refresh
  BY <1>3 DEF Water!Refresh
<1>4. CASE Water!SendCommand
  <2>1. UNCHANGED <<stolen, waterChosen, waterSelected>>
    BY <1>4 DEF Water!SendCommand
  <2>2. order' = [to |-> Water!Active, chosen |-> waterChosen, stolen |-> stolen]
    BY <1>4 DEF Water!SendCommand
  <2>3. stolen \/ waterChosen \in {None, Water!Active}
    BY DEF Water!Active
  <2>4. order'.stolen = stolen /\ order'.chosen = waterChosen /\ order'.to = Water!Active
    BY <2>2, Zenon
  <2>5. order'.stolen \/ order'.chosen \in {None, order'.to}
    BY <2>3, <2>4, Zenon
  <2> QED
    BY <2>1, <2>5
<1>5. CASE Water!Poll
  BY <1>5 DEF Water!Poll
<1>6. ASSUME NEW p \in waterPending, Water!Answer(p) PROVE WaterInv'
  <2>1. ASSUME NEW rows \in SUBSET Meter, Water!AnswerMeters(p, rows) PROVE WaterInv'
    BY <2>1, Zenon DEF Water!AnswerMeters
  <2>5. CASE Water!MetersUnavailable(p)
    BY <2>5 DEF Water!MetersUnavailable
  <2>2. CASE Water!AnswerDetails(p)
    BY <2>2 DEF Water!AnswerDetails
  <2>3. CASE Water!AnswerGateway(p)
    BY <2>3 DEF Water!AnswerGateway
  <2>4. CASE Water!AnswerCommand(p)
    BY <2>4 DEF Water!AnswerCommand
  <2> QED
    BY <1>6, <2>1, <2>2, <2>3, <2>4, <2>5 DEF Water!Answer
<1> QED
  BY <1>1, <1>2, <1>3, <1>4, <1>5, <1>6 DEF Water!WaterNext

\* The presets are entered as they are labelled.
LEMMA PresetsAreExact == \A seconds \in Twin!Presets : Twin!InSeconds(Twin!ApplyPreset(seconds)) = seconds
<1>0. ASSUME NEW entry, entry.value \in Int
      PROVE  /\ entry.unit = "h" => Twin!InSeconds(entry) = (entry.value * 3600 + 50) \div 100
             /\ entry.unit = "min" => Twin!InSeconds(entry) = (entry.value * 60 + 50) \div 100
  BY <1>0, SMT DEF Twin!InSeconds
<1>1. ASSUME NEW n \in Nat PROVE Twin!InSeconds([value |-> 100 * n, unit |-> "h"]) = 3600 * n
  <2> DEFINE entry == [value |-> 100 * n, unit |-> "h"]
  <2>1. entry.unit = "h" /\ entry.value = 100 * n
    OBVIOUS
  <2> HIDE DEF entry
  <2>2. Twin!InSeconds(entry) = ((100 * n) * 3600 + 50) \div 100
    BY <1>0, <2>1
  <2>3. ((100 * n) * 3600 + 50) \div 100 = 3600 * n
    OBVIOUS
  <2> QED
    BY <2>2, <2>3 DEF entry
<1>2. ASSUME NEW n \in Nat PROVE Twin!InSeconds([value |-> 100 * n, unit |-> "min"]) = 60 * n
  <2> DEFINE entry == [value |-> 100 * n, unit |-> "min"]
  <2>1. entry.unit = "min" /\ entry.value = 100 * n
    OBVIOUS
  <2> HIDE DEF entry
  <2>2. Twin!InSeconds(entry) = ((100 * n) * 60 + 50) \div 100
    BY <1>0, <2>1
  <2>3. ((100 * n) * 60 + 50) \div 100 = 60 * n
    OBVIOUS
  <2> QED
    BY <2>2, <2>3 DEF entry
<1>3. ASSUME NEW seconds \in Twin!Presets PROVE Twin!InSeconds(Twin!ApplyPreset(seconds)) = seconds
  <2>1. /\ seconds \div 3600 \in Nat /\ seconds \div 60 \in Nat
        /\ IF seconds % 3600 = 0 THEN 3600 * (seconds \div 3600) = seconds
           ELSE 60 * (seconds \div 60) = seconds
    BY DEF Twin!Presets
  <2> QED
    BY <1>1, <1>2, <2>1 DEF Twin!ApplyPreset
<1> QED
  BY <1>3

SimulatedForIt == strayed \/ simValve = None \/ simValve.of = twinOf

TwinInv == strayed \in BOOLEAN /\ SimulatedForIt /\ Twin!SentAsMeant

LEMMA TwinNextInv == ASSUME TwinInv, [Twin!TwinNext]_twinPart PROVE TwinInv'
<1> USE DEF TwinInv
<1>1. CASE UNCHANGED twinPart
  BY <1>1 DEF twinPart, SimulatedForIt, Twin!SentAsMeant
<1>2. ASSUME UNCHANGED twinSent PROVE Twin!SentAsMeant'
  BY <1>2 DEF Twin!SentAsMeant
<1>3. ASSUME NEW m \in Meter, Twin!ShowMeter(m) PROVE TwinInv'
  BY <1>2, <1>3 DEF Twin!ShowMeter, SimulatedForIt
<1>4. ASSUME NEW m \in {"simulation", "live"}, Twin!SetMode(m) PROVE TwinInv'
  BY <1>2, <1>4 DEF Twin!SetMode, SimulatedForIt
<1>5. ASSUME NEW o \in {"open", "closed"}, Twin!Cmd(o) PROVE TwinInv'
  <2>1. strayed' \in BOOLEAN /\ SimulatedForIt'
    BY <1>5 DEF Twin!Cmd, Twin!Send, SimulatedForIt
  <2>2. Twin!SentAsMeant'
    BY <1>2, <1>5 DEF Twin!Cmd, Twin!Send, Twin!SentAsMeant
  <2> QED
    BY <2>1, <2>2
<1>6. CASE Twin!CommandAnswered
  BY <1>2, <1>6 DEF Twin!CommandAnswered, SimulatedForIt
<1>7. CASE Twin!SimulationEnds
  BY <1>2, <1>7 DEF Twin!SimulationEnds, SimulatedForIt
<1>8. CASE Twin!ResetSimulation
  BY <1>2, <1>8 DEF Twin!ResetSimulation, SimulatedForIt
<1>9. ASSUME NEW entry, Twin!EnterInterval(entry) PROVE TwinInv'
  BY <1>2, <1>9 DEF Twin!EnterInterval, SimulatedForIt
<1>10. CASE Twin!SubmitInterval
  <2> DEFINE s == Twin!InSeconds(twinInterval)
  <2>1. s \in Twin!IntervalMin..Twin!IntervalMax
    BY <1>10 DEF Twin!SubmitInterval
  <2>2. /\ twinSent' = [command |-> "interval", seconds |-> s, mode |-> twinMode]
        /\ UNCHANGED <<strayed, simValve, twinOf>>
    BY <1>10 DEF Twin!SubmitInterval, Twin!Send
  <2> HIDE DEF s
  <2>3. 600 <= s /\ s <= 86400
    <3>1. Twin!IntervalMin \in Int /\ Twin!IntervalMax \in Int
      BY DEF Twin!IntervalMin, Twin!IntervalMax
    <3>2. Twin!IntervalMin <= s /\ s <= Twin!IntervalMax
      BY <2>1, <3>1
    <3> QED
      BY <3>2 DEF Twin!IntervalMin, Twin!IntervalMax
  <2>4. Twin!SentAsMeant'
    BY <2>2, <2>3 DEF Twin!SentAsMeant
  <2> QED
    BY <2>2, <2>4 DEF SimulatedForIt
<1> QED
  BY <1>1, <1>3, <1>4, <1>5, <1>6, <1>7, <1>8, <1>9, <1>10 DEF Twin!TwinNext

LEMMA SimulationApart == TwinInv => Twin!SimulationStaysApart
<1>1. twinMode = "live" => Twin!Valve = Twin!Data.valve
  BY DEF Twin!Valve
<1>2. Twin!NetworkTopology.valve = Twin!Valve
  BY Zenon DEF Twin!NetworkTopology
<1>3. twinMode = "live" =>
         /\ Twin!NetworkTopology.valve = Twin!Data.valve
         /\ Twin!HealthStatus(Twin!Valve, TRUE) = Twin!HealthStatus(Twin!Data.valve, TRUE)
  BY <1>1, <1>2, Zenon
<1> QED
  BY <1>3, PresetsAreExact, Zenon DEF TwinInv, SimulatedForIt, Twin!SimulationStaysApart

LEMMA CommandInit == ConsoleInit => WaterInv /\ TwinInv
<1> SUFFICES ASSUME ConsoleInit PROVE WaterInv /\ TwinInv
  OBVIOUS
<1>1. WaterInv
  BY DEF ConsoleInit, Water!WaterInit, WaterInv, Water!CommandToChosen
<1>2. TwinInv
  <2>0. Twin!TwinInit
    BY DEF ConsoleInit
  <2>1. strayed = FALSE /\ simValve = None /\ twinSent = None
    BY <2>0 DEF Twin!TwinInit
  <2>2. SimulatedForIt
    BY <2>1 DEF SimulatedForIt
  <2>3. Twin!SentAsMeant
    BY <2>1 DEF Twin!SentAsMeant
  <2> QED
    BY <2>1, <2>2, <2>3 DEF TwinInv
<1> QED
  BY <1>1, <1>2

\* A command goes to the meter the user chose, a simulated one nowhere, and an
\* interval is within the meter's bounds (WaterMetersPage, WaterMeterDigitalTwin).
THEOREM CommandsGoAsMeant == ConsoleSpec => []CommandsAsMeant
<1>1. WaterInv /\ TwinInv /\ [ConsoleNext]_<<part, parts>> => WaterInv' /\ TwinInv'
  BY WaterNextInv, TwinNextInv DEF ConsoleNext, parts
<1>2. WaterInv /\ TwinInv => CommandsAsMeant
  BY SimulationApart DEF CommandsAsMeant, WaterInv
<1> QED
  BY <1>1, <1>2, CommandInit, ConsoleSafety, PTL

-----------------------------------------------------------------------------
(* The leaks (LiveLists) *)

OffersAgain(shown, i) == [item |-> i, status |-> "active"] \in shown.items

\* ListAnswers on their way, and the rows shown, by the version they were served.
ListAnswers == {p \in listQueue : p.kind = "answer"}
Snapshots == ListAnswers \cup {listRows}

ListShapes ==
    /\ listStatus = [i \in ListItem |-> listStatus[i]] /\ listVersion \in Nat
    /\ \A shown \in Snapshots : shown.version \in 0..listVersion
    /\ \A r \in resolving : r.item \in ListItem

\* What is of the present version shows as active only what is.
PresentIsTrue ==
    \A shown \in Snapshots : shown.version = listVersion =>
        \A i : OffersAgain(shown, i) => listStatus[i] = "active"

\* An item listed again since it was resolved is not active, and no answer served
\* then or later shows it so.
NotOffered(i, from) ==
    /\ i \in ListItem /\ listStatus[i] = "resolved"
    /\ \A shown \in Snapshots : shown.version >= from => ~OffersAgain(shown, i)

ListInv ==
    /\ ListShapes /\ PresentIsTrue
    /\ \A p \in listQueue : p.kind = "ask" =>
          \A i \in p.after : i \in ListItem /\ listStatus[i] = "resolved"
    /\ \A p \in ListAnswers : \A i \in p.after : NotOffered(i, p.version)
    /\ overtaken \/ \A i \in resolved : NotOffered(i, listRows.version)

LEMMA ListInitInv == List!ListsInit => ListInv
<1> SUFFICES ASSUME List!ListsInit PROVE ListInv
  OBVIOUS
<1>1. /\ listStatus = [i \in ListItem |-> "active"] /\ listVersion = 0
      /\ listRows.items = {} /\ listRows.version = 0 /\ resolving = {} /\ resolved = {}
  BY DEF List!ListsInit
<1>2. \A p \in listQueue : p.kind = "ask" /\ p.after = {}
  BY DEF List!ListsInit, List!Ask
<1>3. ListAnswers = {} /\ Snapshots = {listRows}
  BY <1>2 DEF ListAnswers, Snapshots
<1> QED
  BY <1>1, <1>2, <1>3 DEF ListInv, ListShapes, PresentIsTrue, OffersAgain

\* A request is added.
LEMMA ListAsks ==
    ASSUME ListInv, NEW a, listQueue' = listQueue \cup {a}, a.kind = "ask",
           \A i \in a.after : i \in ListItem /\ listStatus[i] = "resolved",
           UNCHANGED <<listStatus, listVersion, listRows, resolved, overtaken>>,
           \A r \in resolving' : r.item \in ListItem
    PROVE  ListInv'
<1>1. ListAnswers' = ListAnswers /\ Snapshots' = Snapshots
  BY DEF ListAnswers, Snapshots
<1> QED
  BY <1>1 DEF ListInv, ListShapes, PresentIsTrue, NotOffered, OffersAgain

LEMMA ListResolution ==
    ASSUME ListInv, NEW r \in resolving, NEW ok \in BOOLEAN, List!Resolution(r, ok)
    PROVE  ListInv'
<1> DEFINE a == [kind |-> "ask", key |-> r.key, after |-> IF ok THEN {r.item} ELSE {}]
<1>1. /\ listStatus' = IF ok THEN [listStatus EXCEPT ![r.item] = "resolved"] ELSE listStatus
      /\ listVersion' = IF listStatus' = listStatus THEN listVersion ELSE listVersion + 1
      /\ listQueue' = listQueue \cup {a} /\ resolving' = resolving \ {r}
      /\ UNCHANGED <<listRows, resolved, overtaken>>
  BY DEF List!Resolution, List!Ask
<1>2. a.kind = "ask" /\ a.after = IF ok THEN {r.item} ELSE {}
  OBVIOUS
<1> HIDE DEF a
<1>3. ListAnswers' = ListAnswers /\ Snapshots' = Snapshots
  BY <1>1, <1>2 DEF ListAnswers, Snapshots
<1>4. /\ r.item \in ListItem /\ listStatus' = [i \in ListItem |-> listStatus'[i]]
      /\ \A i \in ListItem : listStatus[i] = "resolved" => listStatus'[i] = "resolved"
      /\ ok => listStatus'[r.item] = "resolved"
  BY <1>1 DEF ListInv, ListShapes
<1>5. \A i, from : NotOffered(i, from) => NotOffered(i, from)'
  BY <1>3, <1>4 DEF NotOffered, OffersAgain
<1>6. ListShapes'
  BY <1>1, <1>3, <1>4 DEF ListInv, ListShapes
<1>7. PresentIsTrue'
  <2>1. CASE listStatus' = listStatus
    BY <1>1, <1>3, <2>1 DEF ListInv, PresentIsTrue, OffersAgain
  <2>2. CASE listStatus' # listStatus
    BY <1>1, <1>3, <2>2 DEF ListInv, ListShapes, PresentIsTrue
  <2> QED
    BY <2>1, <2>2
<1>8. \A p \in listQueue' : p.kind = "ask" =>
         \A i \in p.after : i \in ListItem /\ listStatus'[i] = "resolved"
  BY <1>1, <1>2, <1>4 DEF ListInv
<1> QED
  BY <1>1, <1>3, <1>5, <1>6, <1>7, <1>8 DEF ListInv

LEMMA ListServed == ASSUME ListInv, NEW p \in listQueue, List!Serve(p) PROVE ListInv'
<1>1. PICK ok \in BOOLEAN :
         listQueue' = (listQueue \ {p}) \cup
            {[kind |-> "answer", key |-> p.key, after |-> IF ok THEN p.after ELSE {},
              items |-> IF ok THEN List!Listed(p.key) ELSE {}, version |-> listVersion]}
  BY DEF List!Serve
<1> DEFINE items == IF ok THEN List!Listed(p.key) ELSE {}
           answer == [kind |-> "answer", key |-> p.key, after |-> IF ok THEN p.after ELSE {},
                      items |-> items, version |-> listVersion]
<1>2. PICK a : a = answer
  OBVIOUS
<1>3. /\ listQueue' = (listQueue \ {p}) \cup {a} /\ p.kind = "ask"
      /\ UNCHANGED <<listStatus, listVersion, listRows, resolving, resolved, overtaken>>
  BY <1>1, <1>2 DEF List!Serve
<1>4. \A i : [item |-> i, status |-> "active"] \in items => listStatus[i] = "active"
  BY DEF List!Listed
<1> HIDE DEF items
<1>5. /\ a.kind = "answer" /\ a.version = listVersion /\ a.items = items
      /\ \A i \in a.after : i \in p.after
  BY <1>2
<1> HIDE DEF answer
<1>6. ListAnswers' = ListAnswers \cup {a} /\ Snapshots' = Snapshots \cup {a}
  BY <1>3, <1>5 DEF ListAnswers, Snapshots
<1>7. \A i : OffersAgain(a, i) => listStatus[i] = "active"
  BY <1>4, <1>5 DEF OffersAgain
<1>8. ListShapes'
  BY <1>3, <1>5, <1>6 DEF ListInv, ListShapes
<1>9. PresentIsTrue'
  BY <1>3, <1>6, <1>7 DEF ListInv, PresentIsTrue, OffersAgain
<1>10. \A i, from : NotOffered(i, from) => NotOffered(i, from)'
  BY <1>3, <1>6, <1>7 DEF NotOffered, OffersAgain
<1>11. ASSUME NEW i \in a.after PROVE NotOffered(i, a.version)'
  <2>1. i \in ListItem /\ listStatus[i] = "resolved"
    BY <1>3, <1>5 DEF ListInv
  <2>2. \A shown \in Snapshots : shown.version >= listVersion => shown.version = listVersion
    BY DEF ListInv, ListShapes
  <2>3. \A shown \in Snapshots : shown.version >= listVersion => ~OffersAgain(shown, i)
    BY <2>1, <2>2 DEF ListInv, PresentIsTrue
  <2> QED
    BY <1>3, <1>5, <1>6, <1>7, <2>1, <2>3 DEF NotOffered, OffersAgain
<1>12. \A q \in listQueue' : q.kind = "ask" => q \in listQueue
  BY <1>3, <1>5
<1> QED
  BY <1>3, <1>6, <1>8, <1>9, <1>10, <1>11, <1>12 DEF ListInv

LEMMA ListDelivered == ASSUME ListInv, NEW p \in listQueue, List!Deliver(p) PROVE ListInv'
<1> DEFINE rows == [key |-> p.key, items |-> p.items, version |-> p.version]
<1>1. /\ p.kind = "answer" /\ listQueue' = listQueue \ {p} /\ listRows' = rows
      /\ resolved' = resolved \cup p.after
      /\ overtaken' = (overtaken \/ p.key # key \/ p.version < listRows.version)
      /\ UNCHANGED <<listStatus, listVersion, resolving>>
  BY DEF List!Deliver
<1>2. listRows'.items = p.items /\ listRows'.version = p.version
  BY <1>1
<1> HIDE DEF rows
<1>3. p \in ListAnswers /\ p \in Snapshots /\ ListAnswers' = ListAnswers \ {p}
      /\ \A shown \in Snapshots' : \E old \in Snapshots :
            shown.items = old.items /\ shown.version = old.version
  BY <1>1, <1>2 DEF ListAnswers, Snapshots
<1>4. ListShapes'
  BY <1>1, <1>3 DEF ListInv, ListShapes
<1>5. PresentIsTrue'
  BY <1>1, <1>3 DEF ListInv, PresentIsTrue, OffersAgain
<1>6. \A i, from : NotOffered(i, from) => NotOffered(i, from)'
  BY <1>1, <1>3 DEF NotOffered, OffersAgain
<1>7. ASSUME ~overtaken', NEW i \in resolved' PROVE NotOffered(i, listRows.version)'
  <2>1. ~overtaken /\ ~(p.version < listRows.version)
    BY <1>1, <1>7, Zenon
  <2>2. CASE i \in p.after
    BY <1>2, <1>3, <1>6, <2>2 DEF ListInv
  <2>3. CASE i \in resolved
    <3>1. NotOffered(i, listRows.version)
      BY <2>1, <2>3 DEF ListInv
    <3>2. p.version \in 0..listVersion /\ listRows.version \in 0..listVersion /\ listVersion \in Nat
      BY <1>3 DEF ListInv, ListShapes, Snapshots
    <3>3. \A shown \in Snapshots : shown.version \in 0..listVersion
      BY DEF ListInv, ListShapes
    <3>4. \A shown \in Snapshots : shown.version >= p.version => shown.version >= listRows.version
      BY <2>1, <3>2, <3>3
    <3>5. NotOffered(i, p.version)
      BY <3>1, <3>4 DEF NotOffered
    <3> QED
      BY <1>2, <1>6, <3>5
  <2> QED
    BY <1>1, <1>7, <2>2, <2>3
<1>8. \A q \in listQueue' : q \in listQueue
  BY <1>1
<1> QED
  BY <1>1, <1>3, <1>4, <1>5, <1>6, <1>7, <1>8 DEF ListInv

LEMMA ListNextInv == ASSUME ListInv, [List!ListsNext]_listPart PROVE ListInv'
<1>1. CASE UNCHANGED <<listStatus, listVersion, listRows, listQueue, resolved, overtaken>>
           /\ \A r \in resolving' : r.item \in ListItem
  <2>1. ListAnswers' = ListAnswers /\ Snapshots' = Snapshots
    BY <1>1 DEF ListAnswers, Snapshots
  <2> QED
    BY <1>1, <2>1 DEF ListInv, ListShapes, PresentIsTrue, NotOffered, OffersAgain
<1>2. \A r \in resolving : r.item \in ListItem
  BY DEF ListInv, ListShapes
<1>3. CASE UNCHANGED listPart
  BY <1>1, <1>2, <1>3 DEF listPart
<1>4. \A k : List!Ask(k, {}).kind = "ask" /\ List!Ask(k, {}).after = {}
  BY DEF List!Ask
<1>5. ASSUME NEW k \in listPage.keys, List!SetFilter(k) PROVE ListInv'
  <2>1. /\ listQueue' = listQueue \cup {List!Ask(k, {})}
        /\ UNCHANGED <<listStatus, listVersion, listRows, resolving, resolved, overtaken>>
    BY <1>5 DEF List!SetFilter
  <2> QED
    BY <1>2, <1>4, <2>1, ListAsks
<1>6. CASE List!ToggleFilter
  BY <1>1, <1>2, <1>6 DEF List!ToggleFilter
<1>7. CASE List!Reload
  <2>1. /\ listQueue' = listQueue \cup {List!Ask(key, {})}
        /\ UNCHANGED <<listStatus, listVersion, listRows, resolving, resolved, overtaken>>
    BY <1>7 DEF List!Reload
  <2> QED
    BY <1>2, <1>4, <2>1, ListAsks
<1>8. ASSUME NEW i \in ListItem, List!Resolve(i) PROVE ListInv'
  <2> DEFINE r == [item |-> i, key |-> key]
  <2>1. /\ resolving' = resolving \cup {r}
        /\ UNCHANGED <<listStatus, listVersion, listRows, listQueue, resolved, overtaken>>
    BY <1>8 DEF List!Resolve
  <2>2. r.item = i
    OBVIOUS
  <2> HIDE DEF r
  <2> QED
    BY <1>1, <1>2, <2>1, <2>2
<1> QED
  BY <1>3, <1>5, <1>6, <1>7, <1>8, ListResolution, ListServed, ListDelivered DEF List!ListsNext

LEMMA ResolvedStays == ListInv => List!ResolvedStaysResolved
<1> SUFFICES ASSUME ListInv, NEW i \in resolved, ~overtaken
             PROVE  ~OffersAgain(listRows, i)
  BY DEF List!ResolvedStaysResolved, OffersAgain
<1>1. NotOffered(i, listRows.version)
  BY DEF ListInv
<1>2. listRows \in Snapshots /\ listRows.version >= listRows.version
  BY DEF ListInv, ListShapes, Snapshots
<1> QED
  BY <1>1, <1>2 DEF NotOffered

-----------------------------------------------------------------------------
(* The firmware updates (FirmwareUpdates) *)

Image == File \cup {None}
DeploymentRow ==
    [firmware : Image, meant : Image, calm : BOOLEAN, group : BOOLEAN,
     status : {"pending", "multicast_created", "running"}, devs : SUBSET DevEui,
     members : SUBSET DevEui, missed : SUBSET DevEui]

FuotaShapes ==
    /\ picked \in Image /\ firmware \in Image /\ astray \in BOOLEAN
    /\ deployments \in Seq(DeploymentRow)
    /\ DOMAIN fuotaRows \subseteq DOMAIN deployments
    /\ \A p \in fuotaPending :
          /\ p.kind = "upload" => p.of \in File
          /\ p.kind = "create" => /\ p.firmware \in Image /\ p.meant \in Image
                                  /\ p.calm \in BOOLEAN /\ p.devs \in SUBSET DevEui
          /\ p.kind = "start" => p.of \in DOMAIN deployments

\* The page would deploy the file picked last, or its upload is still to be answered.
FirmwareIsPicked ==
    astray \/ firmware = picked \/ \E q \in Fuota!Uploads : q.of = picked

\* What a deployment carries, when it was asked for in calm, and who is in its group.
AsAsked(d) == d.calm => d.firmware = d.meant /\ (d.group => d.members = d.devs \ d.missed)

CarriesPicked ==
    /\ \A p \in fuotaPending : p.kind = "create" /\ p.calm => p.firmware = p.meant
    /\ \A i \in DOMAIN deployments : AsAsked(deployments[i])

RunsAsTold ==
    \A i \in told :
       /\ i \in DOMAIN deployments
       /\ \/ deployments[i].status = "running" \/ deployments[i].firmware = None
          \/ ~deployments[i].group \/ i \in unmarked

FuotaInv == FuotaShapes /\ FirmwareIsPicked /\ CarriesPicked /\ RunsAsTold

LEMMA FuotaInitInv == Fuota!FuotaInit => FuotaInv
<1> SUFFICES ASSUME Fuota!FuotaInit PROVE FuotaInv
  OBVIOUS
<1>1. /\ picked = None /\ firmware = None /\ astray = FALSE /\ told = {}
      /\ deployments = <<>> /\ fuotaRows = <<>>
      /\ \A p \in fuotaPending : p.kind = "list"
  BY DEF Fuota!FuotaInit
<1>2. deployments \in Seq(DeploymentRow) /\ DOMAIN deployments = {} /\ DOMAIN fuotaRows = {}
  BY <1>1
<1> QED
  BY <1>1, <1>2 DEF FuotaInv, FuotaShapes, FirmwareIsPicked, CarriesPicked, RunsAsTold, Image

\* A request that is sent.
LEMMA FuotaSends ==
    ASSUME FuotaInv, NEW request, Fuota!Send(request),
           \/ UNCHANGED picked
           \/ picked' \in File /\ request.kind = "upload" /\ request.of = picked',
           request.kind \in {"upload", "create", "start"},
           request.kind = "upload" => request.of \in File,
           request.kind = "create" =>
              /\ request.firmware \in Image /\ request.meant \in Image
              /\ request.calm \in BOOLEAN /\ request.devs \in SUBSET DevEui
              /\ request.calm => request.firmware = request.meant,
           request.kind = "start" => request.of \in DOMAIN deployments
    PROVE  FuotaInv'
<1>1. /\ UNCHANGED <<firmware, deployments, fuotaRows, astray, told, unmarked>>
      /\ fuotaPending' = fuotaPending \cup {request}
  BY DEF Fuota!Send
<1>2. FuotaShapes'
  BY <1>1 DEF FuotaInv, FuotaShapes, Image
<1>3. FirmwareIsPicked'
  BY <1>1 DEF FuotaInv, FirmwareIsPicked, Fuota!Uploads
<1>4. CarriesPicked' /\ RunsAsTold'
  BY <1>1 DEF FuotaInv, CarriesPicked, RunsAsTold, AsAsked
<1> QED
  BY <1>2, <1>3, <1>4 DEF FuotaInv

\* An answer that leaves the uploads alone, and the records but for what they grow by.
LEMMA FuotaAnswers ==
    ASSUME FuotaInv, NEW p \in fuotaPending, p.kind # "upload", NEW next, Fuota!Answered(p, next),
           \A q \in next : q.kind = "list", UNCHANGED <<firmware, astray>>,
           deployments' \in Seq(DeploymentRow), DOMAIN deployments \subseteq DOMAIN deployments',
           DOMAIN fuotaRows' \subseteq DOMAIN deployments',
           \A i \in DOMAIN deployments' : AsAsked(deployments'[i]),
           RunsAsTold'
    PROVE  FuotaInv'
<1>1. /\ UNCHANGED <<picked, fuotaClicks>>
      /\ fuotaPending' = (fuotaPending \ {p}) \cup next
  BY DEF Fuota!Answered
<1>2. \A q \in fuotaPending' : q \in fuotaPending \/ q.kind = "list"
  BY <1>1
<1>3. FuotaShapes'
  BY <1>1, <1>2 DEF FuotaInv, FuotaShapes
<1>4. FirmwareIsPicked'
  <2>1. Fuota!Uploads' = Fuota!Uploads
    BY <1>1 DEF Fuota!Uploads
  <2> QED
    BY <1>1, <2>1 DEF FuotaInv, FirmwareIsPicked
<1>5. CarriesPicked'
  BY <1>2 DEF FuotaInv, CarriesPicked, AsAsked
<1> QED
  BY <1>3, <1>4, <1>5 DEF FuotaInv

LEMMA UploadAnswered ==
    ASSUME FuotaInv, NEW p \in fuotaPending, p.kind = "upload", Fuota!AnswerUpload(p)
    PROVE  FuotaInv'
<1>1. /\ fuotaPending' = fuotaPending \ {p}
      /\ UNCHANGED <<picked, deployments, fuotaRows, told, unmarked>>
      /\ \/ /\ firmware' = p.of
            /\ astray' = (astray \/ (picked # p.of /\ \A q \in Fuota!Uploads : q.of # picked))
         \/ UNCHANGED firmware /\ astray' = TRUE
  BY DEF Fuota!AnswerUpload, Fuota!Answered
<1>2. FuotaShapes'
  BY <1>1 DEF FuotaInv, FuotaShapes, Image
<1>3. FirmwareIsPicked'
  <2>1. Fuota!Uploads' = Fuota!Uploads \ {p}
    BY <1>1 DEF Fuota!Uploads
  <2>2. CASE astray'
    BY <2>2 DEF FirmwareIsPicked
  <2>3. CASE ~astray'
    <3>1. /\ firmware' = p.of
          /\ ~(picked # p.of /\ \A q \in Fuota!Uploads : q.of # picked)
      BY <1>1, <2>3, Zenon
    <3> QED
      BY <1>1, <2>1, <3>1 DEF FirmwareIsPicked
  <2> QED
    BY <2>2, <2>3
<1>4. CarriesPicked' /\ RunsAsTold'
  BY <1>1 DEF FuotaInv, CarriesPicked, RunsAsTold, AsAsked
<1> QED
  BY <1>2, <1>3, <1>4 DEF FuotaInv

LEMMA ListAnswered ==
    ASSUME FuotaInv, NEW p \in fuotaPending, p.kind = "list", Fuota!AnswerList(p)
    PROVE  FuotaInv'
<1>1. /\ Fuota!Answered(p, {}) /\ UNCHANGED <<firmware, deployments, astray, told, unmarked>>
      /\ DOMAIN fuotaRows' \subseteq DOMAIN deployments
  BY DEF Fuota!AnswerList
<1>2. /\ deployments' \in Seq(DeploymentRow) /\ RunsAsTold'
      /\ \A i \in DOMAIN deployments' : AsAsked(deployments'[i])
  BY <1>1 DEF FuotaInv, FuotaShapes, CarriesPicked, RunsAsTold, AsAsked
<1> QED
  BY <1>1, <1>2, FuotaAnswers

LEMMA CreateAnswered ==
    ASSUME FuotaInv, NEW p \in fuotaPending, p.kind = "create", Fuota!AnswerCreate(p)
    PROVE  FuotaInv'
<1>1. UNCHANGED <<firmware, fuotaRows, astray, told, unmarked>>
  BY DEF Fuota!AnswerCreate
<1>2. \A q \in {Fuota!List(p)} : q.kind = "list"
  BY DEF Fuota!List
<1>3. DOMAIN fuotaRows \subseteq DOMAIN deployments /\ deployments \in Seq(DeploymentRow)
  BY DEF FuotaInv, FuotaShapes
<1>4. CASE UNCHANGED deployments /\ Fuota!Answered(p, {})
  <2>1. RunsAsTold' /\ \A i \in DOMAIN deployments' : AsAsked(deployments'[i])
    BY <1>1, <1>4 DEF FuotaInv, CarriesPicked, RunsAsTold
  <2> QED
    BY <1>1, <1>3, <1>4, <2>1, FuotaAnswers
<1>5. ASSUME NEW group \in BOOLEAN, NEW missed \in SUBSET p.devs,
             deployments' = Append(deployments,
                [firmware |-> p.firmware, meant |-> p.meant, calm |-> p.calm, group |-> group,
                 status |-> IF group THEN "multicast_created" ELSE "pending",
                 devs |-> p.devs, members |-> IF group THEN p.devs \ missed ELSE {},
                 missed |-> missed]),
             Fuota!Answered(p, {Fuota!List(p)})
      PROVE  FuotaInv'
  <2> DEFINE d == [firmware |-> p.firmware, meant |-> p.meant, calm |-> p.calm, group |-> group,
                   status |-> IF group THEN "multicast_created" ELSE "pending",
                   devs |-> p.devs, members |-> IF group THEN p.devs \ missed ELSE {},
                   missed |-> missed]
  <2>1. /\ p.firmware \in Image /\ p.meant \in Image /\ p.calm \in BOOLEAN
        /\ p.devs \in SUBSET DevEui /\ (p.calm => p.firmware = p.meant)
    BY DEF FuotaInv, FuotaShapes, CarriesPicked
  <2>2. d \in DeploymentRow
    BY <2>1 DEF DeploymentRow
  <2>3. AsAsked(d)
    <3>1. d.firmware = p.firmware /\ d.meant = p.meant /\ d.devs = p.devs /\ d.missed = missed
      OBVIOUS
    <3>2. d.calm = p.calm /\ d.group = group
      BY Zenon
    <3>3. group => d.members = p.devs \ missed
      OBVIOUS
    <3> HIDE DEF d
    <3> QED
      BY <2>1, <3>1, <3>2, <3>3, Zenon DEF AsAsked
  <2>4. deployments' = Append(deployments, d)
    BY <1>5
  <2> HIDE DEF d
  <2>5. /\ deployments' \in Seq(DeploymentRow) /\ DOMAIN deployments \subseteq DOMAIN deployments'
        /\ \A i \in DOMAIN deployments : deployments'[i] = deployments[i]
        /\ \A i \in DOMAIN deployments' : i \in DOMAIN deployments \/ deployments'[i] = d
    BY <1>3, <2>2, <2>4
  <2>6. RunsAsTold' /\ \A i \in DOMAIN deployments' : AsAsked(deployments'[i])
    BY <1>1, <2>3, <2>5 DEF FuotaInv, CarriesPicked, RunsAsTold
  <2> QED
    BY <1>1, <1>2, <1>3, <1>5, <2>5, <2>6, FuotaAnswers
<1> QED
  BY <1>4, <1>5 DEF Fuota!AnswerCreate

LEMMA StartAnswered ==
    ASSUME FuotaInv, NEW p \in fuotaPending, p.kind = "start", Fuota!AnswerStart(p)
    PROVE  FuotaInv'
<1>1. /\ Fuota!Answered(p, {Fuota!List(p)}) /\ UNCHANGED <<firmware, fuotaRows, astray>>
  BY DEF Fuota!AnswerStart
<1>2. \A q \in {Fuota!List(p)} : q.kind = "list"
  BY DEF Fuota!List
<1>3. /\ DOMAIN fuotaRows \subseteq DOMAIN deployments /\ deployments \in Seq(DeploymentRow)
      /\ p.of \in DOMAIN deployments
  BY DEF FuotaInv, FuotaShapes
<1> DEFINE d == deployments[p.of]
           ready == d.group /\ d.firmware # None
           running == [d EXCEPT !.status = "running"]
<1>4. d \in DeploymentRow
  BY <1>3
<1>5. /\ running \in DeploymentRow /\ running.status = "running"
      /\ AsAsked(running) <=> AsAsked(d)
  BY <1>4 DEF DeploymentRow, AsAsked
<1>6. ASSUME deployments' \in {deployments, [deployments EXCEPT ![p.of] = running]},
             told' \in {told, told \cup {p.of}}, unmarked \subseteq unmarked',
             \/ p.of \notin told' \/ p.of \in told \/ deployments'[p.of] = running
             \/ ~ready \/ p.of \in unmarked'
      PROVE  FuotaInv'
  <2>1. /\ deployments' \in Seq(DeploymentRow) /\ DOMAIN deployments' = DOMAIN deployments
        /\ \A i \in DOMAIN deployments :
              deployments'[i] = deployments[i] \/ (i = p.of /\ deployments'[i] = running)
    BY <1>3, <1>5, <1>6
  <2>2. \A i \in DOMAIN deployments' : AsAsked(deployments'[i])
    BY <1>5, <2>1 DEF FuotaInv, CarriesPicked
  <2>3. RunsAsTold'
    BY <1>3, <1>5, <1>6, <2>1 DEF FuotaInv, RunsAsTold
  <2> QED
    BY <1>1, <1>2, <1>3, <2>1, <2>2, <2>3, FuotaAnswers
<1>7. \/ told' = told \cup {p.of} /\ ready /\ UNCHANGED unmarked
         /\ deployments' = [deployments EXCEPT ![p.of].status = "running"]
      \/ told' = told \cup {p.of} /\ unmarked' = unmarked \cup {p.of} /\ UNCHANGED deployments
      \/ told' = told \cup {p.of} /\ ~ready /\ UNCHANGED <<deployments, unmarked>>
      \/ UNCHANGED <<told, deployments, unmarked>>
  BY DEF Fuota!AnswerStart
<1>8. CASE deployments' = [deployments EXCEPT ![p.of].status = "running"]
           /\ told' = told \cup {p.of} /\ UNCHANGED unmarked
  <2>1. deployments' = [deployments EXCEPT ![p.of] = running] /\ deployments'[p.of] = running
    BY <1>3, <1>8
  <2> QED
    BY <1>6, <1>8, <2>1
<1> HIDE DEF ready, running
<1>9. CASE told' = told \cup {p.of} /\ unmarked' = unmarked \cup {p.of} /\ UNCHANGED deployments
  BY <1>6, <1>9
<1>10. CASE told' = told \cup {p.of} /\ ~ready /\ UNCHANGED <<deployments, unmarked>>
  BY <1>6, <1>10
<1>11. CASE UNCHANGED <<told, deployments, unmarked>>
  BY <1>6, <1>11
<1> QED
  BY <1>7, <1>8, <1>9, <1>10, <1>11

LEMMA FuotaNextInv == ASSUME FuotaInv, [Fuota!FuotaNext]_fuotaPart PROVE FuotaInv'
<1>1. CASE UNCHANGED fuotaPart
  BY <1>1 DEF fuotaPart, FuotaInv, FuotaShapes, FirmwareIsPicked, Fuota!Uploads, CarriesPicked,
     AsAsked, RunsAsTold
<1>2. ASSUME NEW f \in File, Fuota!PickFile(f) PROVE FuotaInv'
  <2> DEFINE request == [kind |-> "upload", of |-> f, at |-> fuotaClicks]
  <2>1. picked' = f /\ Fuota!Send(request) /\ request.kind = "upload" /\ request.of = f
    BY <1>2 DEF Fuota!PickFile
  <2> HIDE DEF request
  <2> QED
    BY <2>1, FuotaSends
<1>3. ASSUME NEW devs \in SUBSET DevEui, Fuota!CreateDeployment(devs) PROVE FuotaInv'
  <2> DEFINE request == [kind |-> "create", firmware |-> firmware, devs |-> devs,
                         at |-> fuotaClicks, meant |-> picked,
                         calm |-> Fuota!Uploads = {} /\ ~astray]
  <2>1. Fuota!Send(request) /\ UNCHANGED picked
    BY <1>3 DEF Fuota!CreateDeployment
  <2>2. /\ request.kind = "create" /\ request.firmware = firmware /\ request.devs = devs
        /\ request.meant = picked
    OBVIOUS
  <2>3. request.calm = (Fuota!Uploads = {} /\ ~astray)
    BY Zenon
  <2> HIDE DEF request
  <2>4. request.calm \in BOOLEAN
    BY <2>3, Zenon
  <2>5. Fuota!Uploads = {} /\ ~astray => firmware = picked
    BY DEF FuotaInv, FirmwareIsPicked
  <2>6. request.calm => request.firmware = request.meant
    BY <2>2, <2>3, <2>5, Zenon
  <2>7. request.firmware \in Image /\ request.meant \in Image
    BY <2>2 DEF FuotaInv, FuotaShapes
  <2> QED
    BY <2>1, <2>2, <2>4, <2>6, <2>7, FuotaSends
<1>4. ASSUME NEW i \in DOMAIN fuotaRows, Fuota!Start(i) PROVE FuotaInv'
  <2> DEFINE request == [kind |-> "start", of |-> i, at |-> fuotaClicks]
  <2>1. UNCHANGED picked /\ Fuota!Send(request) /\ request.kind = "start" /\ request.of = i
    BY <1>4 DEF Fuota!Start
  <2>2. i \in DOMAIN deployments
    BY DEF FuotaInv, FuotaShapes
  <2> HIDE DEF request
  <2> QED
    BY <2>1, <2>2, FuotaSends
<1> QED
  BY <1>1, <1>2, <1>3, <1>4, UploadAnswered, ListAnswered, CreateAnswered, StartAnswered
  DEF Fuota!FuotaNext

LEMMA DeploymentsAreRight == FuotaInv => Fuota!DeploymentsAsTold
<1> SUFFICES ASSUME FuotaInv PROVE Fuota!DeploymentsAsTold
  OBVIOUS
<1>1. \A d \in Fuota!ToSet(deployments) : AsAsked(d)
  BY DEF FuotaInv, CarriesPicked, Fuota!ToSet
<1> QED
  BY <1>1 DEF FuotaInv, RunsAsTold, AsAsked, Fuota!DeploymentsAsTold

\* A leak that was resolved is not offered again, and a deployment carries the
\* file picked and runs when it is said to (LeakDetectionPage, FuotaPage).
THEOREM ListsAreAsTold == ConsoleSpec => []ListsAsTold
<1> DEFINE Inv == ListInv /\ FuotaInv
<1>1. ConsoleInit => Inv
  BY ListInitInv, FuotaInitInv DEF ConsoleInit
<1>2. Inv /\ [ConsoleNext]_<<part, parts>> => Inv'
  BY ListNextInv, FuotaNextInv DEF ConsoleNext, parts
<1>3. Inv => ListsAsTold
  BY ResolvedStays, DeploymentsAreRight DEF ListsAsTold
<1> QED
  BY <1>1, <1>2, <1>3, ConsoleSafety, PTL

-----------------------------------------------------------------------------
(* A device (DevicePage) *)

\* At most one command to the queue is on its way, and holds the buttons; while
\* a flush is, nothing is kept.
QueueCommands == {p \in devicePending : p.kind \in {"enqueue", "flush"}}

OneCommand ==
    /\ deviceBusy \in BOOLEAN /\ (QueueCommands # {} => deviceBusy)
    /\ \A p, q \in QueueCommands : p = q
    /\ (\E p \in QueueCommands : p.kind = "flush") => kept = {}

\* The key typed last stays in the field while it is on its way.
KeyIsKept ==
    /\ hasty \in BOOLEAN /\ keyText \in {None, entered}
    /\ \A p \in Device!KeysOnTheirWay : p = [kind |-> "keys", of |-> p.of]
    /\ hasty \/ /\ entered \in {None, keyText, deviceStored}
                /\ \A p \in Device!KeysOnTheirWay : p.of = entered /\ keyText = entered

DeviceInv == OneCommand /\ kept \subseteq deviceQueue /\ KeyIsKept

LEMMA DeviceInitInv == Device!DeviceInit => DeviceInv
<1> SUFFICES ASSUME Device!DeviceInit PROVE DeviceInv
  OBVIOUS
<1>1. /\ deviceBusy = FALSE /\ hasty = FALSE /\ kept = {} /\ entered = None /\ keyText = None
      /\ \A p \in devicePending : p.kind = "load"
  BY DEF Device!DeviceInit, Device!Load
<1> QED
  BY <1>1 DEF DeviceInv, OneCommand, QueueCommands, KeyIsKept, Device!KeysOnTheirWay

\* A load, a list or nothing takes the place of one that is neither a command nor a key.
LEMMA DeviceReads ==
    ASSUME DeviceInv, UNCHANGED <<deviceBusy, hasty, keyText, entered, deviceStored>>,
           \A p : p.kind \in {"enqueue", "flush", "keys"} =>
                     (p \in devicePending' <=> p \in devicePending),
           kept' \subseteq deviceQueue', kept' \subseteq kept
    PROVE  DeviceInv'
<1>1. QueueCommands' = QueueCommands
  BY DEF QueueCommands
<1>2. Device!KeysOnTheirWay' = Device!KeysOnTheirWay
  BY DEF Device!KeysOnTheirWay
<1> QED
  BY <1>1, <1>2 DEF DeviceInv, OneCommand, KeyIsKept

\* A command is sent.
LEMMA DeviceSends ==
    ASSUME DeviceInv, NEW c, c.kind \in {"enqueue", "flush"}, ~deviceBusy, deviceBusy' = TRUE,
           Device!Request(c), kept' \in {kept, {}}, c.kind = "flush" => kept' = {}
    PROVE  DeviceInv'
<1>1. /\ devicePending' = devicePending \cup {c}
      /\ UNCHANGED <<deviceStored, deviceQueue, keyText, entered, hasty>>
  BY DEF Device!Request
<1>2. QueueCommands = {} /\ QueueCommands' = {c}
  BY <1>1 DEF DeviceInv, OneCommand, QueueCommands
<1>3. Device!KeysOnTheirWay' = Device!KeysOnTheirWay
  BY <1>1 DEF Device!KeysOnTheirWay
<1> QED
  BY <1>1, <1>2, <1>3 DEF DeviceInv, OneCommand, KeyIsKept

LEMMA CommandAnswered ==
    ASSUME DeviceInv, NEW p \in QueueCommands, NEW result, Device!AnswerCommand(p, result),
           deviceQueue \subseteq result \/ (p.kind = "flush" /\ result = {})
    PROVE  DeviceInv'
<1>1. /\ deviceBusy' = FALSE /\ UNCHANGED <<deviceStored, keyText, entered, hasty>>
      /\ \/ /\ deviceQueue' = result /\ kept' = kept \cup (result \ deviceQueue)
            /\ devicePending' = (devicePending \ {p}) \cup {Device!Load}
         \/ /\ deviceQueue' \in {deviceQueue, result} /\ UNCHANGED kept
            /\ devicePending' = devicePending \ {p}
  BY DEF Device!AnswerCommand
<1>2. Device!Load.kind = "load"
  BY DEF Device!Load
<1>3. QueueCommands' = {}
  BY <1>1, <1>2 DEF DeviceInv, OneCommand, QueueCommands
<1>4. Device!KeysOnTheirWay' = Device!KeysOnTheirWay
  BY <1>1, <1>2 DEF Device!KeysOnTheirWay, QueueCommands
<1>5. kept' \subseteq deviceQueue'
  BY <1>1 DEF DeviceInv, OneCommand
<1> QED
  BY <1>1, <1>3, <1>4, <1>5 DEF DeviceInv, OneCommand, KeyIsKept

LEMMA KeysAnswered ==
    ASSUME DeviceInv, NEW p \in Device!KeysOnTheirWay, Device!AnswerKeys(p) PROVE DeviceInv'
<1>1. /\ \/ deviceStored' = p.of /\ keyText' = None
         \/ UNCHANGED <<deviceStored, keyText>>
      /\ devicePending' = devicePending \ {p}
      /\ UNCHANGED <<deviceQueue, deviceBusy, entered, hasty, kept>>
  BY DEF Device!AnswerKeys
<1>2. QueueCommands' = QueueCommands
  BY <1>1 DEF QueueCommands, Device!KeysOnTheirWay
<1>3. \A q \in Device!KeysOnTheirWay' : q \in Device!KeysOnTheirWay /\ q # p
  BY <1>1 DEF Device!KeysOnTheirWay
<1>4. KeyIsKept'
  BY <1>1, <1>3 DEF DeviceInv, KeyIsKept
<1> QED
  BY <1>1, <1>2, <1>4 DEF DeviceInv, OneCommand

LEMMA DeviceAnswered ==
    ASSUME DeviceInv, NEW p \in devicePending, Device!Answer(p) PROVE DeviceInv'
<1>1. CASE p.kind = "list" /\ Device!DeliverList(p)
  <2>1. /\ devicePending' = devicePending \ {p}
        /\ UNCHANGED <<deviceStored, deviceQueue, keyText, deviceBusy, entered, hasty, kept>>
    BY <1>1 DEF Device!DeliverList
  <2>2. kept' \subseteq deviceQueue'
    BY <2>1 DEF DeviceInv
  <2> QED
    BY <1>1, <2>1, <2>2, DeviceReads
<1>2. CASE p.kind = "keys" /\ Device!AnswerKeys(p)
  BY <1>2, KeysAnswered DEF Device!KeysOnTheirWay
<1>3. CASE p.kind = "enqueue" /\ Device!AnswerCommand(p, deviceQueue \cup {p.at})
  BY <1>3, CommandAnswered DEF QueueCommands
<1>4. CASE p.kind = "flush" /\ Device!AnswerCommand(p, {})
  BY <1>4, CommandAnswered DEF QueueCommands
<1> QED
  BY <1>1, <1>2, <1>3, <1>4 DEF Device!Answer

LEMMA DeviceNextInv == ASSUME DeviceInv, [Device!DeviceNext]_devicePart PROVE DeviceInv'
<1>1. kept \subseteq deviceQueue
  BY DEF DeviceInv
<1>2. CASE UNCHANGED devicePart
  BY <1>1, <1>2, DeviceReads DEF devicePart
<1>3. ASSUME NEW k \in Key, Device!TypeKey(k) PROVE DeviceInv'
  <2>1. /\ keyText' = k /\ entered' = k /\ hasty' = (hasty \/ Device!KeysOnTheirWay # {})
        /\ UNCHANGED <<deviceStored, deviceQueue, deviceBusy, devicePending, kept>>
    BY <1>3 DEF Device!TypeKey
  <2>2. QueueCommands' = QueueCommands /\ Device!KeysOnTheirWay' = Device!KeysOnTheirWay
    BY <2>1 DEF QueueCommands, Device!KeysOnTheirWay
  <2>3. hasty' \in BOOLEAN
    BY <2>1
  <2>4. ~hasty' => Device!KeysOnTheirWay = {}
    BY <2>1, Zenon
  <2>5. KeyIsKept'
    BY <2>1, <2>2, <2>3, <2>4 DEF DeviceInv, KeyIsKept
  <2> QED
    BY <1>1, <2>1, <2>2, <2>5 DEF DeviceInv, OneCommand
<1>4. CASE Device!SaveKeys
  <2> DEFINE p == [kind |-> "keys", of |-> keyText]
  <2>1. /\ devicePending' = devicePending \cup {p} /\ keyText # None
        /\ UNCHANGED <<deviceStored, deviceQueue, keyText, entered, hasty, deviceBusy, kept>>
    BY <1>4 DEF Device!SaveKeys, Device!Request
  <2>2. QueueCommands' = QueueCommands
    BY <2>1 DEF QueueCommands
  <2>3. \A q \in Device!KeysOnTheirWay' : q \in Device!KeysOnTheirWay \/ q = p
    BY <2>1 DEF Device!KeysOnTheirWay
  <2>4. KeyIsKept'
    BY <2>1, <2>3 DEF DeviceInv, KeyIsKept
  <2> QED
    BY <1>1, <2>1, <2>2, <2>4 DEF DeviceInv, OneCommand
<1>5. CASE Device!Enqueue
  <2> DEFINE c == [kind |-> "enqueue", at |-> deviceClicks]
  <2>1. /\ ~deviceBusy /\ deviceBusy' = TRUE /\ Device!Request(c) /\ UNCHANGED kept
        /\ c.kind = "enqueue"
    BY <1>5 DEF Device!Enqueue
  <2> HIDE DEF c
  <2> QED
    BY <2>1, DeviceSends
<1>6. CASE Device!Flush
  <2> DEFINE c == [kind |-> "flush"]
  <2>1. /\ ~deviceBusy /\ deviceBusy' = TRUE /\ Device!Request(c) /\ kept' = {}
        /\ c.kind = "flush"
    BY <1>6 DEF Device!Flush
  <2> HIDE DEF c
  <2> QED
    BY <2>1, DeviceSends
<1>7. Device!Load.kind = "load"
  BY DEF Device!Load
<1>8. CASE Device!Reload
  <2>1. /\ devicePending' = devicePending \cup {Device!Load}
        /\ UNCHANGED <<deviceStored, deviceQueue, keyText, deviceBusy, entered, hasty, kept>>
    BY <1>8 DEF Device!Reload
  <2> QED
    BY <1>1, <1>7, <2>1, DeviceReads
<1>9. CASE Device!ServeList
  <2>1. PICK list \in {deviceQueue, {}} :
           /\ devicePending' = (devicePending \ {Device!Load})
                               \cup {[kind |-> "list", items |-> list]}
           /\ UNCHANGED <<deviceStored, deviceQueue, keyText, deviceBusy, entered, hasty, kept>>
    BY <1>9 DEF Device!ServeList
  <2> QED
    BY <1>1, <1>7, <2>1, DeviceReads
<1>10. CASE Device!Uplink
  <2>1. /\ kept' \subseteq deviceQueue' /\ kept' \subseteq kept
        /\ UNCHANGED <<deviceStored, keyText, deviceBusy, devicePending, entered, hasty>>
    BY <1>1, <1>10 DEF Device!Uplink
  <2> QED
    BY <2>1, DeviceReads
<1>11. CASE Device!QueuedByOthers
  <2>1. /\ kept' \subseteq deviceQueue' /\ kept' \subseteq kept
        /\ UNCHANGED <<deviceStored, keyText, deviceBusy, devicePending, entered, hasty>>
    BY <1>1, <1>11 DEF Device!QueuedByOthers
  <2> QED
    BY <2>1, DeviceReads
<1> QED
  BY <1>2, <1>3, <1>4, <1>5, <1>6, <1>8, <1>9, <1>10, <1>11, DeviceAnswered DEF Device!DeviceNext

LEMMA DeviceIsRight == DeviceInv => Device!DeviceAsTold
BY DEF DeviceInv, KeyIsKept, Device!DeviceAsTold

-----------------------------------------------------------------------------
(* A gateway (GatewayPage) *)

GatewayButtons == {"rf", "mode", "vpn", "scan"}
AnyModel == Model \cup {None}

IsGatewayLoad(p) == p.kind \in {"load", "answer"}

GatewayMessage(p) ==
    /\ p.kind = "load" => p = Gateway!Load(p.of, p.button)
    /\ IsGatewayLoad(p) =>
          /\ p.of \in {"gateway", "conn", "scan"}
          /\ p.button = None \/ (p.of = "gateway" /\ p.button = "rf")
             \/ (p.of = "conn" /\ p.button \in {"mode", "vpn"})
    /\ p.kind = "answer" /\ p.of = "conn" => p.data = None \/ p.data.mode \in Mode
    /\ p.kind = "answer" /\ p.of = "gateway" => p.data = None \/ p.data.model \in AnyModel
    /\ p.kind = "mode" => p.mode \in Mode
    /\ p.kind = "vpn" => p.to \in BOOLEAN
    /\ p.kind = "rf" => p.model \in AnyModel

GatewayRow ==
    /\ gatewayMode \in Mode /\ vpn \in BOOLEAN /\ rf \in [flag : BOOLEAN, model : AnyModel]
    /\ rfModel \in AnyModel /\ pick \in Mode
    /\ gatewayEarly \in BOOLEAN /\ both \in BOOLEAN /\ gatewayFailed \in Nat

GatewayShapes ==
    /\ GatewayRow /\ held \subseteq GatewayButtons
    /\ \A p \in gatewayPending : GatewayMessage(p)

\* A button is held by its request, or by the load that follows.
Holds(p, button) == p.kind = button \/ (IsGatewayLoad(p) /\ p.button = button)
HeldByRequests == \A b \in held : \E p \in gatewayPending : Holds(p, b)

\* Of the connectivity, one request or load is on its way at most.
OfConn(p) == (IsGatewayLoad(p) /\ p.of = "conn") \/ p.kind \in {"mode", "vpn"}
ConnWork == {p \in gatewayPending : OfConn(p)}

ConnCalm ==
    /\ \A p, q \in ConnWork : p = q
    /\ \A p \in ConnWork : IF IsGatewayLoad(p) THEN "conn" \in hidden ELSE p.kind \in held
    /\ \A p \in ConnWork : p.kind = "answer" => p.data = Gateway!Served("conn")
    /\ ConnWork = {} => conn = Gateway!Served("conn")

\* So it is for the compatibility.
OfRf(p) == (IsGatewayLoad(p) /\ p.of = "gateway") \/ p.kind = "rf"
RfWork == {p \in gatewayPending : OfRf(p)}

RfCalm ==
    /\ \A p, q \in RfWork : p = q
    /\ \A p \in RfWork : "rf" \in held \/ (IsGatewayLoad(p) /\ p.button = None)
    /\ \A p \in RfWork : p.kind = "answer" =>
          p.data # None /\ (p.data.supported = Gateway!Supported)
    /\ RfWork = {} => (gw.supported = Gateway!Supported)

GatewayInv ==
    /\ GatewayShapes /\ HeldByRequests
    /\ gatewayFailed > 0 \/ both \/ ConnCalm
    /\ gatewayFailed > 0 \/ gatewayEarly \/ RfCalm

LEMMA GatewayInitInv == Gateway!GatewayInit => GatewayInv
<1> SUFFICES ASSUME Gateway!GatewayInit PROVE GatewayInv
  OBVIOUS
<1> DEFINE load(of) == Gateway!Load(of, None)
<1>1. /\ gatewayPending = {load("gateway"), load("conn"), load("scan")} /\ held = {}
      /\ hidden = {"conn", "scan"} /\ gatewayFailed = 0
  BY DEF Gateway!GatewayInit
<1>2. \A of : load(of).kind = "load" /\ load(of).of = of /\ load(of).button = None
  BY DEF Gateway!Load
<1>8. \A of : load(of) = Gateway!Load(load(of).of, load(of).button)
  BY <1>2
<1> HIDE DEF load
<1>10. PICK m \in AnyModel : rf = [flag |-> m # None, model |-> m]
  BY DEF Gateway!GatewayInit, AnyModel
<1>11. PICK flag \in BOOLEAN : flag = (m # None)
  BY Zenon
<1>12. rf = [flag |-> flag, model |-> m]
  BY <1>10, <1>11, Zenon
<1>14. rf \in [flag : BOOLEAN, model : AnyModel] /\ rf.model = m
  BY <1>12
<1>3. GatewayRow
  BY <1>14 DEF Gateway!GatewayInit, GatewayRow, AnyModel
<1>9. \A of \in {"gateway", "conn", "scan"} : GatewayMessage(load(of))
  BY <1>2, <1>8 DEF GatewayMessage, IsGatewayLoad
<1>4. GatewayShapes
  BY <1>1, <1>3, <1>9 DEF GatewayShapes
<1>5. HeldByRequests
  BY <1>1, <1>14 DEF HeldByRequests
<1>6. ConnWork = {load("conn")} /\ RfWork = {load("gateway")}
  BY <1>1, <1>2 DEF ConnWork, RfWork, OfConn, OfRf, IsGatewayLoad
<1>7. ConnCalm /\ RfCalm
  BY <1>1, <1>2, <1>6 DEF ConnCalm, RfCalm, IsGatewayLoad
<1> QED
  BY <1>4, <1>5, <1>7 DEF GatewayInv

\* The load of the scans, or nothing, is sent.
LEMMA GatewayRests ==
    ASSUME GatewayInv,
           UNCHANGED <<rf, gatewayMode, vpn, gw, conn, held, gatewayEarly, both, gatewayFailed>>,
           gatewayPending' \in {gatewayPending, gatewayPending \cup {Gateway!Load("scan", None)}},
           "conn" \in hidden => "conn" \in hidden', rfModel' \in AnyModel, pick' \in Mode
    PROVE  GatewayInv'
<1>1. PICK load : load = Gateway!Load("scan", None)
  OBVIOUS
<1>2. /\ load.kind = "load" /\ load.of = "scan" /\ load.button = None
      /\ load = Gateway!Load(load.of, load.button)
      /\ gatewayPending' \in {gatewayPending, gatewayPending \cup {load}}
  BY <1>1 DEF Gateway!Load
<1>3. ConnWork' = ConnWork /\ RfWork' = RfWork
  BY <1>2 DEF ConnWork, RfWork, OfConn, OfRf, IsGatewayLoad
<1>4. GatewayMessage(load)
  BY <1>2 DEF GatewayMessage, IsGatewayLoad
<1>5. GatewayShapes'
  BY <1>2, <1>4 DEF GatewayInv, GatewayShapes, GatewayRow, GatewayMessage, IsGatewayLoad
<1>6. HeldByRequests'
  BY <1>2 DEF GatewayInv, HeldByRequests, Holds, IsGatewayLoad
<1>7. Gateway!Served("conn")' = Gateway!Served("conn") /\ Gateway!Supported' = Gateway!Supported
  BY DEF Gateway!Served, Gateway!Supported
<1>8. (ConnCalm => ConnCalm') /\ (RfCalm => RfCalm')
  BY <1>3, <1>7 DEF ConnCalm, RfCalm, IsGatewayLoad
<1> QED
  BY <1>5, <1>6, <1>8 DEF GatewayInv

\* A request is sent with a button that is free.
LEMMA GatewayRequests ==
    ASSUME GatewayInv, NEW button \in GatewayButtons, NEW p, Gateway!Request(button, p),
           p.kind = button, GatewayMessage(p),
           button \in {"mode", "vpn"} => "conn" \notin hidden,
           gatewayEarly' \in BOOLEAN, gatewayEarly => gatewayEarly',
           button = "rf" => gatewayEarly' \/ \A q \in gatewayPending :
              ~(IsGatewayLoad(q) /\ q.of = "gateway" /\ q.button = None)
    PROVE  GatewayInv'
<1>1. /\ button \notin held /\ held' = held \cup {button}
      /\ gatewayPending' = gatewayPending \cup {p}
      /\ both' = (both \/ {"mode", "vpn"} \subseteq held')
      /\ UNCHANGED <<rf, gatewayMode, vpn, scan, gw, rfModel, conn, pick, gatewayPanel, hidden,
                     gatewayFailed>>
  BY DEF Gateway!Request, Gateway!stored, Gateway!page
<1>2. both' \in BOOLEAN /\ (both => both') /\ ({"mode", "vpn"} \subseteq held' => both')
  BY <1>1 DEF GatewayInv, GatewayShapes, GatewayRow
<1>3. ~IsGatewayLoad(p)
  BY DEF IsGatewayLoad, GatewayButtons
<1>4. GatewayShapes'
  <2>1. \A q \in gatewayPending' : GatewayMessage(q)
    BY <1>1 DEF GatewayInv, GatewayShapes
  <2>2. \A q \in gatewayPending' : GatewayMessage(q)'
    BY <2>1 DEF GatewayMessage, IsGatewayLoad
  <2> QED
    BY <1>1, <1>2, <2>2 DEF GatewayInv, GatewayShapes, GatewayRow
<1>5. HeldByRequests'
  BY <1>1 DEF GatewayInv, HeldByRequests, Holds, IsGatewayLoad
<1>6. Gateway!Served("conn")' = Gateway!Served("conn") /\ Gateway!Supported' = Gateway!Supported
  BY <1>1 DEF Gateway!Served, Gateway!Supported
<1>7. ASSUME ConnCalm, ~both' PROVE ConnCalm'
  <2>1. CASE button \in {"mode", "vpn"}
    <3>1. ConnWork = {}
      <4> SUFFICES ASSUME NEW q \in ConnWork PROVE FALSE
        OBVIOUS
      <4>1. ~IsGatewayLoad(q)
        BY <1>7, <2>1 DEF ConnCalm
      <4>2. q.kind \in {"mode", "vpn"} /\ q.kind \in held
        BY <1>7, <4>1 DEF ConnCalm, ConnWork, OfConn
      <4> QED
        BY <1>1, <1>2, <1>7, <2>1, <4>2
    <3>2. ConnWork' = {p}
      BY <1>1, <2>1, <3>1 DEF ConnWork, OfConn, IsGatewayLoad
    <3> QED
      BY <1>1, <1>3, <2>1, <3>2 DEF ConnCalm, IsGatewayLoad
  <2>2. CASE button \notin {"mode", "vpn"}
    <3>1. ConnWork' = ConnWork
      BY <1>1, <1>3, <2>2 DEF ConnWork, OfConn, IsGatewayLoad
    <3> QED
      BY <1>1, <1>6, <1>7, <3>1 DEF ConnCalm, IsGatewayLoad
  <2> QED
    BY <2>1, <2>2
<1>8. ASSUME RfCalm, ~gatewayEarly' PROVE RfCalm'
  <2>1. CASE button = "rf"
    <3>1. RfWork = {}
      <4> SUFFICES ASSUME NEW q \in RfWork PROVE FALSE
        OBVIOUS
      <4>1. IsGatewayLoad(q) /\ q.button = None
        BY <1>1, <1>8, <2>1 DEF RfCalm
      <4>2. q \in gatewayPending /\ q.of = "gateway"
        BY <4>1 DEF RfWork, OfRf, IsGatewayLoad
      <4> QED
        BY <1>8, <2>1, <4>1, <4>2
    <3>2. RfWork' = {p}
      BY <1>1, <2>1, <3>1 DEF RfWork, OfRf, IsGatewayLoad
    <3> QED
      BY <1>1, <2>1, <3>2 DEF RfCalm, IsGatewayLoad
  <2>2. CASE button # "rf"
    <3>1. RfWork' = RfWork
      BY <1>1, <1>3, <2>2 DEF RfWork, OfRf, IsGatewayLoad
    <3> QED
      BY <1>1, <1>6, <1>8, <3>1 DEF RfCalm, IsGatewayLoad
  <2> QED
    BY <2>1, <2>2
<1> QED
  BY <1>1, <1>2, <1>4, <1>5, <1>7, <1>8 DEF GatewayInv

LEMMA GatewayServed ==
    ASSUME GatewayInv, NEW p \in gatewayPending, Gateway!ServeLoad(p) PROVE GatewayInv'
<1>1. PICK ok \in BOOLEAN :
         /\ ok => gatewayFailed' = gatewayFailed
         /\ ~ok => gatewayFailed' = gatewayFailed + 1
         /\ gatewayPending' = (gatewayPending \ {p}) \cup
               {[kind |-> "answer", of |-> p.of, button |-> p.button,
                 data |-> IF ok THEN Gateway!Served(p.of) ELSE None]}
  BY DEF Gateway!ServeLoad, Gateway!Well, Gateway!Fault
<1> DEFINE data == IF ok THEN Gateway!Served(p.of) ELSE None
<1>2. PICK a : a = [kind |-> "answer", of |-> p.of, button |-> p.button, data |-> data]
  OBVIOUS
<1>3. /\ gatewayPending' = (gatewayPending \ {p}) \cup {a} /\ p.kind = "load"
      /\ UNCHANGED <<rf, gatewayMode, vpn, scan, gw, rfModel, conn, pick, hidden, held,
                     gatewayEarly, both>>
  BY <1>1, <1>2 DEF Gateway!ServeLoad, Gateway!stored, Gateway!page
<1>4. a.kind = "answer" /\ a.of = p.of /\ a.button = p.button /\ a.data = data
  BY <1>2
<1>5. GatewayMessage(p) /\ GatewayRow
  BY DEF GatewayInv, GatewayShapes
<1>6. ok /\ p.of = "conn" => a.data = Gateway!Served("conn") /\ a.data.mode = gatewayMode
  BY <1>4 DEF Gateway!Served
<1>7. ok /\ p.of = "gateway" =>
         /\ a.data # None /\ (a.data.supported = Gateway!Supported)
         /\ a.data.model \in AnyModel
  <2> SUFFICES ASSUME ok, p.of = "gateway"
               PROVE  /\ a.data # None /\ (a.data.supported = Gateway!Supported)
                      /\ a.data.model \in AnyModel
    OBVIOUS
  <2>1. PICK can \in BOOLEAN : can = Gateway!Supported
    BY <1>5, Zenon DEF Gateway!Supported
  <2> DEFINE model == IF Gateway!Supported THEN rf.model ELSE None
  <2>2. Gateway!Served("gateway") = [supported |-> Gateway!Supported, model |-> model]
    BY DEF Gateway!Served
  <2>3. model \in AnyModel
    BY <1>5 DEF GatewayRow, AnyModel
  <2> HIDE DEF model
  <2>4. a.data = [supported |-> can, model |-> model]
    BY <1>4, <2>1, <2>2, Zenon
  <2>5. a.data \in [supported : BOOLEAN, model : Model \cup {None}]
    BY <2>3, <2>4 DEF AnyModel
  <2>6. a.data.supported = can
    BY <2>4
  <2> QED
    BY <2>1, <2>3, <2>4, <2>5, <2>6, NoneIsNoAnswer
<1> HIDE DEF data
<1>8. GatewayMessage(a)
  <2>1. ~ok => a.data = None
    BY <1>4 DEF data
  <2>2. a.of = "conn" => a.data = None \/ a.data.mode \in Mode
    BY <1>4, <1>5, <1>6, <2>1 DEF GatewayRow
  <2>3. a.of = "gateway" => a.data = None \/ a.data.model \in AnyModel
    BY <1>4, <1>7, <2>1
  <2> QED
    BY <1>3, <1>4, <1>5, <2>2, <2>3 DEF GatewayMessage, IsGatewayLoad
<1>9. GatewayShapes'
  <2>1. \A q \in gatewayPending' : GatewayMessage(q)'
    BY <1>3, <1>8 DEF GatewayInv, GatewayShapes, GatewayMessage, IsGatewayLoad
  <2>2. GatewayRow'
    BY <1>1, <1>3, <1>5 DEF GatewayRow
  <2> QED
    BY <1>3, <2>1, <2>2 DEF GatewayInv, GatewayShapes
<1>10. HeldByRequests'
  <2>1. \A b \in held : Holds(p, b) => Holds(a, b)
    BY <1>3, <1>4 DEF GatewayInv, GatewayShapes, GatewayButtons, Holds, IsGatewayLoad
  <2> QED
    BY <1>3, <2>1 DEF GatewayInv, HeldByRequests, Holds, IsGatewayLoad
<1>11. Gateway!Served("conn")' = Gateway!Served("conn") /\ Gateway!Supported' = Gateway!Supported
  BY <1>3 DEF Gateway!Served, Gateway!Supported
<1>12. OfConn(a) = OfConn(p) /\ OfRf(a) = OfRf(p) /\ IsGatewayLoad(a) /\ IsGatewayLoad(p)
  BY <1>3, <1>4 DEF OfConn, OfRf, IsGatewayLoad
<1>13. ASSUME ConnCalm, ok PROVE ConnCalm'
  <2>1. CASE OfConn(p)
    <3>1. ConnWork = {p} /\ ConnWork' = {a}
      BY <1>3, <1>12, <1>13, <2>1 DEF ConnCalm, ConnWork, OfConn, IsGatewayLoad
    <3>2. p.of = "conn"
      BY <1>3, <2>1 DEF OfConn, IsGatewayLoad
    <3> QED
      BY <1>3, <1>6, <1>11, <1>12, <1>13, <3>1, <3>2 DEF ConnCalm, IsGatewayLoad
  <2>2. CASE ~OfConn(p)
    <3>1. ConnWork' = ConnWork
      BY <1>3, <1>12, <2>2 DEF ConnWork, OfConn, IsGatewayLoad
    <3> QED
      BY <1>3, <1>11, <1>13, <3>1 DEF ConnCalm, IsGatewayLoad
  <2> QED
    BY <2>1, <2>2
<1>14. ASSUME RfCalm, ok PROVE RfCalm'
  <2>1. CASE OfRf(p)
    <3>1. RfWork = {p} /\ RfWork' = {a}
      BY <1>3, <1>12, <1>14, <2>1 DEF RfCalm, RfWork, OfRf, IsGatewayLoad
    <3>2. p.of = "gateway"
      BY <1>3, <2>1 DEF OfRf, IsGatewayLoad
    <3> QED
      BY <1>3, <1>4, <1>7, <1>11, <1>12, <1>14, <3>1, <3>2 DEF RfCalm, IsGatewayLoad
  <2>2. CASE ~OfRf(p)
    <3>1. RfWork' = RfWork
      BY <1>3, <1>12, <2>2 DEF RfWork, OfRf, IsGatewayLoad
    <3> QED
      BY <1>3, <1>11, <1>14, <3>1 DEF RfCalm, IsGatewayLoad
  <2> QED
    BY <2>1, <2>2
<1>15. ~ok => gatewayFailed' > 0
  BY <1>1, <1>5 DEF GatewayRow
<1>16. gatewayFailed > 0 => gatewayFailed' > 0
  BY <1>1, <1>5 DEF GatewayRow
<1> QED
  BY <1>3, <1>9, <1>10, <1>13, <1>14, <1>15, <1>16 DEF GatewayInv

LEMMA GatewayDelivered ==
    ASSUME GatewayInv, NEW p \in gatewayPending, Gateway!Deliver(p) PROVE GatewayInv'
<1>1. /\ p.kind = "answer" /\ held' = held \ {p.button} /\ gatewayPending' = gatewayPending \ {p}
      /\ UNCHANGED <<rf, gatewayMode, vpn, scan, gatewayEarly, both, gatewayFailed>>
      /\ p.of \in {"gateway", "conn", "scan"}
  BY DEF Gateway!Deliver, Gateway!stored
<1>2. /\ p.of = "gateway" => Gateway!DeliverGateway(p)
      /\ p.of = "conn" => Gateway!DeliverConnectivity(p)
      /\ p.of = "scan" => Gateway!DeliverScan(p)
  BY <1>1 DEF Gateway!Deliver
<1>3. GatewayMessage(p) /\ GatewayRow /\ IsGatewayLoad(p)
  BY <1>1 DEF GatewayInv, GatewayShapes, IsGatewayLoad
<1>4. GatewayShapes'
  <2>1. \A q \in gatewayPending' : GatewayMessage(q)'
    BY <1>1 DEF GatewayInv, GatewayShapes, GatewayMessage, IsGatewayLoad
  <2>2. rfModel' \in AnyModel
    <3>1. CASE p.of = "gateway"
      BY <1>1, <1>2, <1>3, <3>1 DEF Gateway!DeliverGateway, GatewayMessage, GatewayRow, AnyModel
    <3>2. CASE p.of # "gateway"
      BY <1>1, <1>2, <1>3, <3>2 DEF Gateway!DeliverConnectivity, Gateway!DeliverScan, Gateway!page,
         GatewayRow
    <3> QED
      BY <3>1, <3>2
  <2>3. pick' \in Mode
    <3>1. CASE p.of = "conn"
      BY <1>1, <1>2, <1>3, <3>1 DEF Gateway!DeliverConnectivity, GatewayMessage, GatewayRow
    <3>2. CASE p.of # "conn"
      BY <1>1, <1>2, <1>3, <3>2 DEF Gateway!DeliverGateway, Gateway!DeliverScan, GatewayRow
    <3> QED
      BY <3>1, <3>2
  <2> QED
    BY <1>1, <1>3, <2>1, <2>2, <2>3 DEF GatewayInv, GatewayShapes, GatewayRow
<1>5. HeldByRequests'
  <2>1. \A b \in held' : b \in held /\ b \in GatewayButtons /\ b # p.button
    BY <1>1 DEF GatewayInv, GatewayShapes
  <2>2. \A b \in held' : ~Holds(p, b)
    BY <1>1, <2>1 DEF Holds, GatewayButtons
  <2>3. ASSUME NEW b \in held' PROVE \E q \in gatewayPending' : Holds(q, b)'
    <3>1. PICK q \in gatewayPending : Holds(q, b)
      BY <2>1 DEF GatewayInv, HeldByRequests
    <3>2. q # p
      BY <2>2, <3>1
    <3> QED
      BY <1>1, <3>1, <3>2 DEF Holds, IsGatewayLoad
  <2> QED
    BY <1>1, <2>3 DEF GatewayInv, HeldByRequests
<1>6. Gateway!Served("conn")' = Gateway!Served("conn") /\ Gateway!Supported' = Gateway!Supported
  BY <1>1 DEF Gateway!Served, Gateway!Supported
<1>7. ASSUME ConnCalm PROVE ConnCalm'
  <2>1. CASE OfConn(p)
    <3>1. ConnWork = {p} /\ ConnWork' = {}
      BY <1>1, <1>7, <2>1 DEF ConnCalm, ConnWork, OfConn, IsGatewayLoad
    <3>2. p.of = "conn" /\ p.data = Gateway!Served("conn")
      BY <1>1, <1>7, <2>1, <3>1 DEF ConnCalm, OfConn, IsGatewayLoad
    <3>3. Gateway!Served("conn") # None
      <4>1. Gateway!Served("conn") = [mode |-> gatewayMode, vpn |-> vpn]
        BY DEF Gateway!Served
      <4>2. [mode |-> gatewayMode, vpn |-> vpn] \in [mode : Mode, vpn : BOOLEAN]
        BY <1>3 DEF GatewayRow
      <4> QED
        BY <4>1, <4>2, NoneIsNoAnswer
    <3>4. conn' = Gateway!Served("conn")
      BY <1>2, <3>2, <3>3 DEF Gateway!DeliverConnectivity
    <3> QED
      BY <1>6, <3>1, <3>4 DEF ConnCalm
  <2>2. CASE ~OfConn(p)
    <3>1. ConnWork' = ConnWork
      BY <1>1, <2>2 DEF ConnWork, OfConn, IsGatewayLoad
    <3>2. UNCHANGED conn /\ ("conn" \in hidden => "conn" \in hidden')
      BY <1>1, <1>2, <1>3, <2>2 DEF OfConn, Gateway!DeliverGateway, Gateway!DeliverScan
    <3>3. p.button \notin {"mode", "vpn"}
      BY <1>3, <2>2, NoneIsNoButton DEF OfConn, GatewayMessage
    <3>4. \A q \in ConnWork : ~IsGatewayLoad(q) => q.kind \in {"mode", "vpn"}
      BY DEF ConnWork, OfConn
    <3> QED
      BY <1>1, <1>6, <1>7, <3>1, <3>2, <3>3, <3>4 DEF ConnCalm, IsGatewayLoad
  <2> QED
    BY <2>1, <2>2
<1>8. ASSUME RfCalm PROVE RfCalm'
  <2>1. CASE OfRf(p)
    <3>1. RfWork = {p} /\ RfWork' = {}
      BY <1>1, <1>8, <2>1 DEF RfCalm, RfWork, OfRf, IsGatewayLoad
    <3>2. /\ p.of = "gateway" /\ p.data # None
          /\ (p.data.supported = Gateway!Supported)
      BY <1>1, <1>8, <2>1, <3>1 DEF RfCalm, OfRf, IsGatewayLoad
    <3>3. gw' = [known |-> p.button = None, supported |-> p.data.supported]
      BY <1>2, <3>2, Zenon DEF Gateway!DeliverGateway
    <3>4. gw'.supported = p.data.supported
      BY <3>3, Zenon
    <3>5. gw'.supported = Gateway!Supported
      BY <3>2, <3>4, Zenon
    <3> QED
      BY <1>6, <3>1, <3>5 DEF RfCalm
  <2>2. CASE ~OfRf(p)
    <3>1. RfWork' = RfWork
      BY <1>1, <2>2 DEF RfWork, OfRf, IsGatewayLoad
    <3>2. UNCHANGED gw
      BY <1>1, <1>2, <1>3, <2>2 DEF OfRf, Gateway!DeliverConnectivity, Gateway!DeliverScan,
         Gateway!page
    <3>3. p.button # "rf"
      BY <1>3, <2>2, NoneIsNoButton DEF OfRf, GatewayMessage
    <3> QED
      BY <1>1, <1>6, <1>8, <3>1, <3>2, <3>3 DEF RfCalm, IsGatewayLoad
  <2> QED
    BY <2>1, <2>2
<1> QED
  BY <1>1, <1>4, <1>5, <1>7, <1>8 DEF GatewayInv

LEMMA RfAnswered ==
    ASSUME GatewayInv, NEW p \in gatewayPending, p.kind = "rf", Gateway!AnswerRf(p),
           UNCHANGED <<gw, rfModel, conn, pick, gatewayEarly, both>>
    PROVE  GatewayInv'
<1>1. PICK load : load = Gateway!Load("gateway", "rf")
  OBVIOUS
<1>2. /\ load.kind = "load" /\ load.of = "gateway" /\ load.button = "rf"
      /\ load = Gateway!Load(load.of, load.button)
  BY <1>1 DEF Gateway!Load
<1>3. /\ gatewayPending' = (gatewayPending \ {p}) \cup {load}
      /\ UNCHANGED <<gatewayMode, vpn, scan, hidden, held>>
  BY <1>1 DEF Gateway!AnswerRf
<1>4. \/ /\ rf' = [flag |-> p.model # None, model |-> IF p.model = None THEN rf.model ELSE p.model]
         /\ gatewayFailed' = gatewayFailed
      \/ gatewayFailed' = gatewayFailed + 1 /\ UNCHANGED rf
  BY DEF Gateway!AnswerRf, Gateway!Well, Gateway!Fault
<1>5. p.model \in AnyModel /\ GatewayRow
  BY DEF GatewayInv, GatewayShapes, GatewayMessage
<1>6. /\ rf' \in [flag : BOOLEAN, model : AnyModel]
      /\ gatewayFailed' \in {gatewayFailed, gatewayFailed + 1}
  <2> DEFINE model == IF p.model = None THEN rf.model ELSE p.model
  <2>1. CASE gatewayFailed' = gatewayFailed + 1 /\ UNCHANGED rf
    BY <1>5, <2>1 DEF GatewayRow, GatewayInv
  <2>2. CASE /\ rf' = [flag |-> p.model # None, model |-> model]
             /\ gatewayFailed' = gatewayFailed
    <3>1. model \in AnyModel
      BY <1>5 DEF GatewayRow
    <3>2. PICK flag \in BOOLEAN : flag = (p.model # None)
      BY Zenon
    <3> HIDE DEF model
    <3>3. rf' = [flag |-> flag, model |-> model]
      BY <2>2, <3>2, Zenon
    <3> QED
      BY <2>2, <3>1, <3>3
  <2> QED
    BY <1>4, <2>1, <2>2
<1>7. GatewayShapes'
  <2>1. GatewayMessage(load)
    BY <1>2 DEF GatewayMessage, IsGatewayLoad
  <2>2. \A q \in gatewayPending' : GatewayMessage(q)'
    BY <1>3, <2>1 DEF GatewayInv, GatewayShapes, GatewayMessage, IsGatewayLoad
  <2> QED
    BY <1>3, <1>5, <1>6, <2>2 DEF GatewayInv, GatewayShapes, GatewayRow
<1>8. HeldByRequests'
  <2>1. \A b : Holds(p, b) => Holds(load, b)
    BY <1>2 DEF Holds, IsGatewayLoad
  <2>2. ASSUME NEW b \in held' PROVE \E q \in gatewayPending' : Holds(q, b)'
    <3>1. PICK q \in gatewayPending : Holds(q, b)
      BY <1>3 DEF GatewayInv, HeldByRequests
    <3>2. CASE q = p
      <4>1. load \in gatewayPending' /\ Holds(load, b)
        BY <1>3, <2>1, <3>1, <3>2
      <4> QED
        BY <4>1 DEF Holds, IsGatewayLoad
    <3>3. CASE q # p
      BY <1>3, <3>1, <3>3 DEF Holds, IsGatewayLoad
    <3> QED
      BY <3>2, <3>3
  <2> QED
    BY <1>6, <2>2 DEF HeldByRequests
<1>9. ConnCalm => ConnCalm'
  <2>1. ConnWork' = ConnWork
    BY <1>2, <1>3 DEF ConnWork, OfConn, IsGatewayLoad
  <2>2. Gateway!Served("conn")' = Gateway!Served("conn")
    BY <1>3 DEF Gateway!Served
  <2> QED
    BY <1>3, <2>1, <2>2 DEF ConnCalm, IsGatewayLoad
<1>10. ASSUME RfCalm PROVE RfCalm'
  <2>1. RfWork = {p}
    BY <1>10 DEF RfCalm, RfWork, OfRf
  <2>2. RfWork' = {load}
    BY <1>2, <1>3, <2>1 DEF RfWork, OfRf, IsGatewayLoad
  <2>3. "rf" \in held
    BY <1>10, <2>1 DEF RfCalm, IsGatewayLoad
  <2> QED
    BY <1>2, <1>3, <2>2, <2>3 DEF RfCalm
<1> QED
  BY <1>5, <1>6, <1>7, <1>8, <1>9, <1>10 DEF GatewayInv, GatewayRow

LEMMA PanelAnswered ==
    ASSUME GatewayInv, NEW p \in gatewayPending, p.kind \in {"mode", "vpn", "scan"},
           Gateway!AnswerPanel(p), UNCHANGED <<gw, rfModel, conn, pick, gatewayEarly, both>>
    PROVE  GatewayInv'
<1>1. PICK load : load = IF p.kind = "scan" THEN Gateway!Load("scan", None)
                         ELSE Gateway!Load("conn", p.kind)
  OBVIOUS
<1>2. /\ load.kind = "load" /\ load = Gateway!Load(load.of, load.button)
      /\ p.kind = "scan" => load.of = "scan" /\ load.button = None
      /\ p.kind # "scan" => load.of = "conn" /\ load.button = p.kind
  BY <1>1 DEF Gateway!Load
<1>3. UNCHANGED rf /\ GatewayMessage(p) /\ GatewayRow /\ ~IsGatewayLoad(p)
  BY DEF Gateway!AnswerPanel, GatewayInv, GatewayShapes, IsGatewayLoad
<1>4. Gateway!Reload(p) =>
         /\ gatewayPending' = (gatewayPending \ {p}) \cup {load}
         /\ held' = held \ {"scan"} \/ held' = held
         /\ p.kind = "scan" => held' = held \ {"scan"}
         /\ hidden \subseteq hidden' /\ (p.kind # "scan" => "conn" \in hidden')
  BY <1>1 DEF Gateway!Reload
<1>5. /\ gatewayMode' \in Mode /\ vpn' \in BOOLEAN
      /\ \/ /\ gatewayFailed' = gatewayFailed /\ Gateway!Reload(p)
            /\ p.kind = "scan" => UNCHANGED <<gatewayMode, vpn>>
         \/ /\ gatewayFailed' = gatewayFailed + 1
            /\ \/ gatewayPending' = gatewayPending \ {p} /\ held' = held \ {p.kind}
               \/ Gateway!Reload(p) /\ p.kind = "vpn"
  BY <1>3 DEF Gateway!AnswerPanel, Gateway!Well, Gateway!Fault, Gateway!Change, GatewayMessage,
     GatewayRow
<1>6. GatewayShapes'
  <2>1. GatewayMessage(load)
    BY <1>2, <1>3 DEF GatewayMessage, IsGatewayLoad
  <2>2. \A q \in gatewayPending' : q \in gatewayPending \/ q = load
    BY <1>4, <1>5
  <2>3. \A q \in gatewayPending' : GatewayMessage(q)'
    BY <2>1, <2>2 DEF GatewayInv, GatewayShapes, GatewayMessage, IsGatewayLoad
  <2>4. held' \subseteq GatewayButtons
    BY <1>4, <1>5 DEF GatewayInv, GatewayShapes
  <2> QED
    BY <1>3, <1>5, <2>3, <2>4 DEF GatewayRow, GatewayShapes
<1>7. HeldByRequests'
  <2> SUFFICES ASSUME NEW b \in held' PROVE \E q \in gatewayPending' : Holds(q, b)'
    BY DEF HeldByRequests
  <2>1. b \in held
    BY <1>4, <1>5
  <2>2. PICK q \in gatewayPending : Holds(q, b)
    BY <2>1 DEF GatewayInv, HeldByRequests
  <2>3. CASE q # p
    BY <1>4, <1>5, <2>2, <2>3 DEF Holds, IsGatewayLoad
  <2>4. CASE q = p
    <3>1. b = p.kind
      BY <1>3, <2>2, <2>4 DEF Holds
    <3>2. Gateway!Reload(p) /\ p.kind # "scan"
      BY <1>4, <1>5, <3>1
    <3>3. load \in gatewayPending' /\ Holds(load, b)
      BY <1>2, <1>4, <3>1, <3>2 DEF Holds, IsGatewayLoad
    <3> QED
      BY <3>3 DEF Holds, IsGatewayLoad
  <2> QED
    BY <2>3, <2>4
<1>9. ASSUME ConnCalm, Gateway!Reload(p), p.kind = "scan" => UNCHANGED <<gatewayMode, vpn>>
      PROVE  ConnCalm'
  <2>1. CASE p.kind = "scan"
    <3>1. ConnWork' = ConnWork
      BY <1>2, <1>3, <1>4, <1>9, <2>1 DEF ConnWork, OfConn, IsGatewayLoad
    <3>2. Gateway!Served("conn")' = Gateway!Served("conn")
      BY <1>9, <2>1 DEF Gateway!Served
    <3>3. \A q \in ConnWork : ~IsGatewayLoad(q) => q.kind \in {"mode", "vpn"}
      BY DEF ConnWork, OfConn
    <3>4. held' = held \ {"scan"} /\ hidden \subseteq hidden'
      BY <1>4, <1>9, <2>1
    <3> QED
      BY <1>9, <3>1, <3>2, <3>3, <3>4 DEF ConnCalm, IsGatewayLoad
  <2>2. CASE p.kind # "scan"
    <3>1. ConnWork = {p}
      BY <1>9, <2>2 DEF ConnCalm, ConnWork, OfConn
    <3>2. ConnWork' = {load}
      BY <1>2, <1>4, <1>9, <2>2, <3>1 DEF ConnWork, OfConn, IsGatewayLoad
    <3>3. "conn" \in hidden'
      BY <1>4, <1>9, <2>2
    <3> QED
      BY <1>2, <3>2, <3>3 DEF ConnCalm, IsGatewayLoad
  <2> QED
    BY <2>1, <2>2
<1>10. ASSUME RfCalm, Gateway!Reload(p) PROVE RfCalm'
  <2>1. RfWork' = RfWork
    BY <1>2, <1>3, <1>4, <1>10 DEF RfWork, OfRf, IsGatewayLoad
  <2>2. Gateway!Supported' = Gateway!Supported
    BY <1>3 DEF Gateway!Supported
  <2>3. "rf" \in held => "rf" \in held'
    BY <1>4, <1>10
  <2> QED
    BY <1>10, <2>1, <2>2, <2>3 DEF RfCalm, IsGatewayLoad
<1>11. gatewayFailed \in Nat
  BY <1>3 DEF GatewayRow
<1> QED
  BY <1>5, <1>6, <1>7, <1>9, <1>10, <1>11 DEF GatewayInv

LEMMA GatewayNextInv == ASSUME GatewayInv, [Gateway!GatewayNext]_gatewayPart PROVE GatewayInv'
<1>1. GatewayRow
  BY DEF GatewayInv, GatewayShapes
<1>2. CASE UNCHANGED gatewayPart
  BY <1>1, <1>2, GatewayRests DEF gatewayPart, GatewayRow
<1>3. ASSUME NEW m \in Model \cup {None}, Gateway!SelectModel(m) PROVE GatewayInv'
  BY <1>1, <1>3, GatewayRests DEF Gateway!SelectModel, Gateway!stored, GatewayRow, AnyModel
<1>4. ASSUME NEW m \in Mode, Gateway!SelectMode(m) PROVE GatewayInv'
  BY <1>1, <1>4, GatewayRests DEF Gateway!SelectMode, Gateway!stored, Gateway!page, GatewayRow
<1>5. CASE Gateway!SaveRfSupport
  <2> DEFINE p == [kind |-> "rf", model |-> rfModel]
  <2>1. /\ Gateway!Request("rf", p) /\ p.kind = "rf" /\ p.model = rfModel
        /\ gatewayEarly' = (gatewayEarly \/ Gateway!Load("gateway", None) \in gatewayPending
              \/ \E q \in gatewayPending :
                    q.kind = "answer" /\ q.of = "gateway" /\ q.button = None)
    BY <1>5 DEF Gateway!SaveRfSupport
  <2> HIDE DEF p
  <2>2. gatewayEarly' \in BOOLEAN /\ (gatewayEarly => gatewayEarly')
    BY <2>1
  <2>3. ASSUME NEW q \in gatewayPending, IsGatewayLoad(q), q.of = "gateway", q.button = None
        PROVE  gatewayEarly'
    <3>1. CASE q.kind = "answer"
      BY <2>1, <2>3, <3>1, Zenon
    <3>2. CASE q.kind = "load"
      <4>1. Gateway!Load("gateway", None) \in gatewayPending
        BY <2>3, <3>2 DEF GatewayInv, GatewayShapes, GatewayMessage
      <4> QED
        BY <2>1, <4>1, Zenon
    <3> QED
      BY <2>3, <3>1, <3>2 DEF IsGatewayLoad
  <2>4. GatewayMessage(p)
    BY <1>1, <2>1 DEF GatewayMessage, GatewayRow, IsGatewayLoad
  <2> QED
    BY <2>1, <2>2, <2>3, <2>4, GatewayRequests DEF GatewayButtons
<1>6. CASE Gateway!SaveMode
  <2> DEFINE p == [kind |-> "mode", mode |-> pick]
  <2>1. /\ Gateway!Request("mode", p) /\ p.kind = "mode" /\ p.mode = pick
        /\ UNCHANGED gatewayEarly /\ "conn" \notin hidden
    BY <1>6 DEF Gateway!SaveMode, Gateway!Shown
  <2> HIDE DEF p
  <2>2. GatewayMessage(p)
    BY <1>1, <2>1 DEF GatewayMessage, GatewayRow, IsGatewayLoad
  <2> QED
    BY <1>1, <2>1, <2>2, GatewayRequests DEF GatewayButtons, GatewayRow
<1>7. CASE Gateway!DownloadVpn \/ Gateway!RevokeVpn
  <2> DEFINE p(to) == [kind |-> "vpn", to |-> to]
  <2>1. PICK to \in BOOLEAN : Gateway!Request("vpn", p(to))
    BY <1>7 DEF Gateway!DownloadVpn, Gateway!RevokeVpn
  <2>2. UNCHANGED gatewayEarly /\ "conn" \notin hidden
    BY <1>7 DEF Gateway!DownloadVpn, Gateway!RevokeVpn, Gateway!Shown
  <2>3. p(to).kind = "vpn" /\ p(to).to = to
    BY Zenon
  <2> HIDE DEF p
  <2>4. GatewayMessage(p(to))
    BY <2>3 DEF GatewayMessage, IsGatewayLoad
  <2> QED
    BY <1>1, <2>1, <2>2, <2>3, <2>4, GatewayRequests DEF GatewayButtons, GatewayRow
<1>8. CASE Gateway!RequestScan
  <2> DEFINE p == [kind |-> "scan"]
  <2>1. Gateway!Request("scan", p) /\ p.kind = "scan" /\ UNCHANGED gatewayEarly
    BY <1>8 DEF Gateway!RequestScan
  <2> HIDE DEF p
  <2>2. GatewayMessage(p)
    BY <2>1 DEF GatewayMessage, IsGatewayLoad
  <2> QED
    BY <1>1, <2>1, <2>2, GatewayRequests DEF GatewayButtons, GatewayRow
<1>9. ASSUME NEW p \in gatewayPending, Gateway!Answer(p) PROVE GatewayInv'
  BY <1>9, RfAnswered, PanelAnswered DEF Gateway!Answer, Gateway!page
<1>10. CASE Gateway!PollScan
  BY <1>1, <1>10, GatewayRests DEF Gateway!PollScan, Gateway!stored, Gateway!page, GatewayRow
<1>11. CASE Gateway!ScanDone
  BY <1>1, <1>11, GatewayRests DEF Gateway!ScanDone, Gateway!page, GatewayRow
<1> QED
  BY <1>2, <1>3, <1>4, <1>5, <1>6, <1>7, <1>8, <1>9, <1>10, <1>11, GatewayServed,
     GatewayDelivered DEF Gateway!GatewayNext

LEMMA GatewayIsRight == GatewayInv => Gateway!GatewayAsShown
<1> SUFFICES ASSUME GatewayInv PROVE Gateway!GatewayAsShown
  OBVIOUS
<1>1. ~Gateway!Coming("conn") => ConnWork = {}
  BY DEF Gateway!Coming, ConnWork, OfConn, IsGatewayLoad
<1>2. ~Gateway!Coming("gateway") => RfWork = {}
  BY DEF Gateway!Coming, RfWork, OfRf, IsGatewayLoad
<1>3. gatewayFailed > 0 \/ both \/ Gateway!Coming("conn") \/ conn = Gateway!Served("conn")
  BY <1>1 DEF GatewayInv, ConnCalm
<1>4. \/ gatewayFailed > 0 \/ gatewayEarly \/ Gateway!Coming("gateway")
      \/ (gw.supported = Gateway!Supported)
  BY <1>2 DEF GatewayInv, RfCalm
<1>5. gatewayPending = {} => held = {}
  BY DEF GatewayInv, HeldByRequests
<1> QED
  BY <1>3, <1>4, <1>5, Zenon DEF Gateway!GatewayAsShown

\* The pages of a device and of a gateway show what is stored, and lose neither
\* a command that was queued nor a key that was typed.
THEOREM DevicesAreAsShown == ConsoleSpec => []DevicesAsShown
<1> DEFINE Inv == DeviceInv /\ GatewayInv
<1>1. ConsoleInit => Inv
  BY DeviceInitInv, GatewayInitInv DEF ConsoleInit
<1>2. Inv /\ [ConsoleNext]_<<part, parts>> => Inv'
  BY DeviceNextInv, GatewayNextInv DEF ConsoleNext, parts
<1>3. Inv => DevicesAsShown
  BY DeviceIsRight, GatewayIsRight DEF DevicesAsShown
<1> QED
  BY <1>1, <1>2, <1>3, ConsoleSafety, PTL

-----------------------------------------------------------------------------
(* The agent (AgentConsole) *)

ChatMessage == [by : {"welcome", "user", "agent"}, turn : Nat, form : BOOLEAN]

ChatTypes ==
    /\ messages \in Seq(ChatMessage) /\ Len(messages) > 0 /\ messages[1].by = "welcome"
    /\ agentSent \in Seq(Nat) /\ agentClicks \in Nat

\* One question at a time is on its way, asked by a click that came before; the
\* page's first request is answered once.
OneQuestion ==
    /\ \A p \in agentPending : p.kind = "chat" => loading = TRUE /\ p.turn \in Nat /\ p.turn < agentClicks
    /\ \A p, q \in agentPending : p.kind = "chat" /\ q.kind = "chat" => p = q
    /\ \A p \in agentPending : p.kind = "tools" => p = [kind |-> "tools"] /\ ~replaced

\* What the agent answers follows its question, and one on its way will.
AnswersFollow ==
    /\ \A i \in 2..Len(messages) : messages[i].by = "agent" =>
          messages[i - 1].by = "user" /\ messages[i - 1].turn = messages[i].turn
    /\ \A p \in agentPending : p.kind = "chat" =>
          messages[Len(messages)].by = "user" /\ messages[Len(messages)].turn = p.turn

OpenForm(i) == i \in 1..Len(messages) /\ messages[i].form = TRUE

SentIn(turns, turn) == \E i \in 1..Len(turns) : turns[i] = turn

\* A form that is open, or on its way, is no other's and was not sent.
FormsOnce ==
    /\ \A i, j \in 1..Len(agentSent) : agentSent[i] = agentSent[j] => i = j
    /\ \A i \in 1..Len(agentSent) : agentSent[i] < agentClicks
    /\ \A i : OpenForm(i) => messages[i].turn < agentClicks /\ ~SentIn(agentSent, messages[i].turn)
    /\ \A i, j : OpenForm(i) /\ OpenForm(j) /\ messages[i].turn = messages[j].turn => i = j
    /\ \A p \in agentPending : p.kind = "chat" =>
          ~SentIn(agentSent, p.turn) /\ \A i : OpenForm(i) => messages[i].turn # p.turn

ChatInv == ChatTypes /\ OneQuestion /\ (~replaced => AnswersFollow) /\ FormsOnce

\* Bodies of the form, as stored and as sent.
IsTools(tools) == tools = None \/ tools \subseteq Builtin

SettingsTypes ==
    /\ IsTools(config.tools) /\ enabled \subseteq Builtin
    /\ \A p \in agentPending : p.kind = "save" => IsTools(p.body.tools)

\* Once it has come, the text shown is not blank, nor is one that was saved.
TextKept ==
    ~agentEarly => /\ config.text # "blank" /\ (loaded => text # "blank")
              /\ \A p \in agentPending : p.kind = "save" => p.body.text # "blank"

\* What is ticked is on its way to be stored, or stored.
TicksKept ==
    loaded /\ ~unsaved =>
        /\ \A p \in agentPending : p.kind = "save" => p.body.tools = Agent!Ticked
        /\ \/ \E p \in agentPending : p.kind = "save"
           \/ Agent!Ticked = {}
           \/ Agent!Allowed = IF all THEN Builtin ELSE enabled

\* The form of a tool holds what that tool held or what was typed.
ToolDraft(of, content) ==
    IF of = None THEN content \in {None, "typed"} ELSE of \in Custom /\ content \in {of, "typed"}

ToolsKept ==
    /\ customs = [c \in Custom |-> customs[c]]
    /\ \A c \in Custom : customs[c] \in {None, c, "typed"}
    /\ ToolDraft(editing, draft)
    /\ \A p \in agentPending : p.kind = "tool" => ToolDraft(p.of, p.draft)

SettingsInv == SettingsTypes /\ TextKept /\ TicksKept /\ ToolsKept

AgentInv == ChatInv /\ SettingsInv

LEMMA AgentInitInv == Agent!AgentInit => AgentInv
<1> SUFFICES ASSUME Agent!AgentInit PROVE AgentInv
  OBVIOUS
<1>1. PICK w : w = Agent!Welcome
  OBVIOUS
<1>2. w \in ChatMessage /\ w.by = "welcome" /\ w.form = FALSE
  BY <1>1 DEF Agent!Welcome, ChatMessage
<1>3. /\ messages = <<w>> /\ agentSent = <<>> /\ ~replaced /\ agentClicks = 0
      /\ \A p \in agentPending : p = [kind |-> "tools"] \/ p.kind = "load"
  BY <1>1 DEF Agent!AgentInit, Agent!ToLoad
<1>4. ChatTypes
  BY <1>2, <1>3 DEF ChatTypes
<1>5. OneQuestion
  BY <1>3 DEF OneQuestion
<1>6. AnswersFollow
  BY <1>3 DEF AnswersFollow
<1>7. FormsOnce
  BY <1>2, <1>3 DEF FormsOnce, OpenForm
<1>8. /\ config \in [text : {"old"}, tools : {None} \cup SUBSET Builtin]
      /\ customs \in [Custom -> {None} \cup Custom] /\ \A c \in Custom : customs[c] \in {None, c}
      /\ enabled = {} /\ draft = None /\ editing = None
  BY DEF Agent!AgentInit
<1>9. config.text = "old" /\ IsTools(config.tools)
  BY <1>8 DEF IsTools
<1>10. SettingsTypes /\ ToolsKept
  BY <1>3, <1>8, <1>9 DEF SettingsTypes, ToolsKept, ToolDraft
<1>11. ~loaded
  BY DEF Agent!AgentInit
<1>12. TextKept /\ TicksKept
  BY <1>3, <1>9, <1>11 DEF TextKept, TicksKept
<1> QED
  BY <1>3, <1>4, <1>5, <1>6, <1>7, <1>10, <1>12 DEF AgentInv, ChatInv, SettingsInv

-----------------------------------------------------------------------------
(* The conversation *)

LEMMA MessageFields ==
  ASSUME NEW m \in ChatMessage
  PROVE  /\ m.turn \in Nat /\ [m EXCEPT !.form = FALSE] \in ChatMessage
         /\ [m EXCEPT !.form = FALSE].by = m.by /\ [m EXCEPT !.form = FALSE].turn = m.turn
         /\ [m EXCEPT !.form = FALSE].form = FALSE
BY DEF ChatMessage

LEMMA ChatMessages ==
  ASSUME ChatTypes, NEW i \in 1..Len(messages)
  PROVE  messages[i] \in ChatMessage /\ messages[i].turn \in Nat
<1>1. messages[i] \in ChatMessage
  BY ElementOfSeq DEF ChatTypes
<1> QED
  BY <1>1, MessageFields

LEMMA ChatStays ==
  ASSUME ChatInv, UNCHANGED <<messages, loading, agentSent, replaced>>,
         agentClicks' = agentClicks \/ agentClicks' = agentClicks + 1,
         \A p \in agentPending' : p.kind \in {"chat", "tools"} => p \in agentPending
  PROVE  ChatInv'
<1>1. ChatTypes'
  BY DEF ChatInv, ChatTypes
<1>2. OneQuestion'
  <2>1. \A p \in agentPending' : p.kind = "chat" \/ p.kind = "tools" => p \in agentPending
    OBVIOUS
  <2> QED
    BY <2>1 DEF ChatInv, ChatTypes, OneQuestion
<1>3. ~replaced' => AnswersFollow'
  BY DEF ChatInv, AnswersFollow
<1>4. FormsOnce'
  <2>1. \A i : OpenForm(i)' <=> OpenForm(i)
    BY DEF OpenForm
  <2>2. \A turn : SentIn(agentSent', turn) <=> SentIn(agentSent, turn)
    BY DEF SentIn
  <2>3. \A i \in 1..Len(agentSent) : agentSent[i] < agentClicks'
    BY DEF ChatInv, ChatTypes, FormsOnce
  <2>4. \A i : OpenForm(i) => messages[i].turn < agentClicks'
    <3>1. \A i : OpenForm(i) => messages[i].turn < agentClicks /\ messages[i].turn \in Nat
      BY ChatMessages DEF ChatInv, FormsOnce, OpenForm
    <3> QED
      BY <3>1 DEF ChatInv, ChatTypes
  <2> QED
    BY <2>1, <2>2, <2>3, <2>4 DEF ChatInv, FormsOnce
<1> QED
  BY <1>1, <1>2, <1>3, <1>4 DEF ChatInv

LEMMA ChatAsked ==
  ASSUME ChatInv, NEW form \in 0..Len(messages), Agent!Send(form) PROVE ChatInv'
<1>1. PICK new : new = [by |-> "user", turn |-> agentClicks, form |-> FALSE]
  OBVIOUS
<1>2. PICK q : q = [kind |-> "chat", turn |-> agentClicks]
  OBVIOUS
<1>3. PICK closed : closed = IF form = 0 THEN messages ELSE [messages EXCEPT ![form].form = FALSE]
  OBVIOUS
<1>4. /\ ~loading /\ loading' = TRUE /\ agentClicks' = agentClicks + 1
      /\ form # 0 => OpenForm(form)
      /\ messages' = Append(closed, new) /\ agentPending' = agentPending \cup {q}
      /\ agentSent' = IF form = 0 THEN agentSent ELSE Append(agentSent, messages[form].turn)
      /\ UNCHANGED replaced
  <2>1. form # 0 => OpenForm(form)
    BY DEF Agent!Send, OpenForm, ChatInv, ChatTypes, ChatMessage
  <2> QED
    BY <1>1, <1>2, <1>3, <2>1 DEF Agent!Send, Agent!Click
<1>5. /\ new.by = "user" /\ new.turn = agentClicks /\ new.form = FALSE /\ new \in ChatMessage
      /\ q.kind = "chat" /\ q.turn = agentClicks
      /\ agentClicks \in Nat /\ messages \in Seq(ChatMessage) /\ Len(messages) > 0
  BY <1>1, <1>2 DEF ChatInv, ChatTypes, ChatMessage
<1>6. /\ closed \in Seq(ChatMessage) /\ Len(closed) = Len(messages)
      /\ \A i \in 1..Len(messages) :
            /\ closed[i].by = messages[i].by /\ closed[i].turn = messages[i].turn
            /\ closed[i].form = TRUE => messages[i].form = TRUE /\ i # form
  <2>1. CASE form = 0
    BY <1>3, <1>5, <2>1
  <2>2. CASE form # 0
    <3>1. form \in 1..Len(messages) /\ ChatTypes
      BY <1>5, <2>2 DEF ChatInv
    <3>2. PICK c : c = [messages[form] EXCEPT !.form = FALSE]
      OBVIOUS
    <3>3. /\ c \in ChatMessage /\ c.by = messages[form].by /\ c.turn = messages[form].turn
          /\ c.form = FALSE
      BY <3>1, <3>2, ChatMessages, MessageFields
    <3>4. closed = [messages EXCEPT ![form] = c]
      BY <1>3, <2>2, <3>2
    <3>5. /\ closed \in Seq(ChatMessage) /\ Len(closed) = Len(messages)
          /\ \A j \in 1..Len(messages) : closed[j] = IF j = form THEN c ELSE messages[j]
      BY <1>5, <3>1, <3>3, <3>4, ExceptSeq
    <3> QED
      BY <3>3, <3>5
  <2> QED
    BY <2>1, <2>2
<1>7. /\ messages' \in Seq(ChatMessage) /\ Len(messages') = Len(messages) + 1
      /\ messages'[Len(messages) + 1] = new
      /\ \A i \in 1..Len(messages) : messages'[i] = closed[i]
  BY <1>4, <1>5, <1>6
<1>8. /\ agentSent' \in Seq(Nat)
      /\ IF form = 0 THEN agentSent' = agentSent
         ELSE /\ Len(agentSent') = Len(agentSent) + 1
              /\ agentSent'[Len(agentSent) + 1] = messages[form].turn
              /\ \A i \in 1..Len(agentSent) : agentSent'[i] = agentSent[i]
  <2>1. agentSent \in Seq(Nat)
    BY DEF ChatInv, ChatTypes
  <2>2. form # 0 => messages[form].turn \in Nat
    BY <1>4, ChatMessages DEF ChatInv, OpenForm
  <2> QED
    BY <1>4, <2>1, <2>2
<1>9. ChatTypes'
  BY <1>4, <1>5, <1>6, <1>7, <1>8 DEF ChatInv, ChatTypes
<1>10. \A p \in agentPending : p.kind # "chat"
  BY <1>4 DEF ChatInv, OneQuestion
<1>11. OneQuestion'
  BY <1>4, <1>5, <1>10 DEF ChatInv, OneQuestion
<1>12. ~replaced' => AnswersFollow'
  <2> SUFFICES ASSUME AnswersFollow PROVE AnswersFollow'
    BY <1>4 DEF ChatInv
  <2>1. ASSUME NEW i \in 2..Len(messages'), messages'[i].by = "agent"
        PROVE  messages'[i - 1].by = "user" /\ messages'[i - 1].turn = messages'[i].turn
    BY <1>5, <1>6, <1>7, <2>1 DEF AnswersFollow
  <2> QED
    BY <1>4, <1>5, <1>7, <1>10, <2>1 DEF AnswersFollow
<1>13. FormsOnce'
  <2>1. \A i : OpenForm(i)' => OpenForm(i) /\ i # form /\ messages'[i].turn = messages[i].turn
    BY <1>5, <1>6, <1>7 DEF OpenForm
  <2>2. \A turn : SentIn(agentSent', turn) =>
           SentIn(agentSent, turn) \/ (form # 0 /\ OpenForm(form) /\ turn = messages[form].turn)
    BY <1>4, <1>8 DEF SentIn, ChatInv, ChatTypes
  <2>3. form # 0 => messages[form].turn < agentClicks /\ ~SentIn(agentSent, messages[form].turn)
    BY <1>4 DEF ChatInv, FormsOnce
  <2>4. \A i \in 1..Len(agentSent') : agentSent'[i] < agentClicks
    BY <1>4, <1>8, <2>3 DEF ChatInv, ChatTypes, FormsOnce
  <2>5. \A i, j \in 1..Len(agentSent') : agentSent'[i] = agentSent'[j] => i = j
    <3>1. CASE form = 0
      BY <1>8, <3>1 DEF ChatInv, FormsOnce
    <3>2. CASE form # 0
      <4>1. Len(agentSent) \in Nat
        BY DEF ChatInv, ChatTypes
      <4>2. \A i \in 1..Len(agentSent) : agentSent[i] # messages[form].turn
        BY <2>3, <3>2 DEF SentIn
      <4>3. \A i, j \in 1..Len(agentSent) : agentSent[i] = agentSent[j] => i = j
        BY DEF ChatInv, FormsOnce
      <4> QED
        BY <1>8, <3>2, <4>1, <4>2, <4>3
    <3> QED
      BY <3>1, <3>2
  <2>6. \A i : OpenForm(i)' => messages'[i].turn < agentClicks /\ ~SentIn(agentSent', messages'[i].turn)
    BY <1>4, <2>1, <2>2 DEF ChatInv, FormsOnce
  <2>7. \A i, j : OpenForm(i)' /\ OpenForm(j)' /\ messages'[i].turn = messages'[j].turn => i = j
    BY <2>1 DEF ChatInv, FormsOnce
  <2>8. ~SentIn(agentSent', agentClicks)
    BY <1>5, <2>4 DEF SentIn
  <2>9. \A n \in Nat : n < agentClicks => n < agentClicks + 1 /\ n # agentClicks
    BY <1>5
  <2>10. \A i : OpenForm(i)' => messages'[i].turn \in Nat
    <3>1. \A i \in 1..Len(messages') : messages'[i] \in ChatMessage
      BY <1>7, ElementOfSeq
    <3> QED
      BY <3>1, MessageFields DEF OpenForm
  <2>11. \A i \in 1..Len(agentSent') : agentSent'[i] \in Nat
    BY <1>8
  <2>12. \A p \in agentPending' : p.kind = "chat" => p = q
    BY <1>4, <1>10
  <2> QED
    BY <1>4, <1>5, <2>4, <2>5, <2>6, <2>7, <2>8, <2>9, <2>10, <2>11, <2>12 DEF FormsOnce
<1> QED
  BY <1>9, <1>11, <1>12, <1>13 DEF ChatInv

LEMMA ChatAnswered ==
  ASSUME ChatInv, NEW p \in agentPending, p.kind = "chat", Agent!AnswerChat(p),
         UNCHANGED agentClicks
  PROVE  ChatInv'
<1>1. PICK form \in BOOLEAN :
        messages' = Append(messages, [by |-> "agent", turn |-> p.turn, form |-> form])
  BY DEF Agent!AnswerChat
<1>2. PICK new : new = [by |-> "agent", turn |-> p.turn, form |-> form]
  OBVIOUS
<1>3. p.turn \in Nat /\ p.turn < agentClicks
  BY DEF ChatInv, OneQuestion
<1>4. new \in ChatMessage /\ new.by = "agent" /\ new.turn = p.turn
  BY <1>2, <1>3 DEF ChatMessage
<1>5. messages \in Seq(ChatMessage) /\ Len(messages) > 0
  BY DEF ChatInv, ChatTypes
<1>6. /\ messages' \in Seq(ChatMessage) /\ Len(messages') = Len(messages) + 1
      /\ messages'[Len(messages) + 1] = new
      /\ \A i \in 1..Len(messages) : messages'[i] = messages[i]
  BY <1>1, <1>2, <1>4, <1>5
<1>7. agentPending' = agentPending \ {p} /\ UNCHANGED <<agentSent, replaced, agentClicks>>
  BY DEF Agent!AnswerChat, Agent!Only
<1>8. ChatTypes'
  BY <1>5, <1>6, <1>7 DEF ChatInv, ChatTypes
<1>9. \A q \in agentPending' : q.kind # "chat"
  BY <1>7 DEF ChatInv, OneQuestion
<1>10. OneQuestion'
  BY <1>7, <1>9 DEF ChatInv, OneQuestion
<1>11. ~replaced' => AnswersFollow'
  <2> SUFFICES ASSUME AnswersFollow PROVE AnswersFollow'
    BY <1>7 DEF ChatInv
  <2>1. ASSUME NEW i \in 2..Len(messages'), messages'[i].by = "agent"
        PROVE  messages'[i - 1].by = "user" /\ messages'[i - 1].turn = messages'[i].turn
    <3>1. messages[Len(messages)].by = "user" /\ messages[Len(messages)].turn = p.turn
      BY DEF AnswersFollow
    <3>2. CASE i = Len(messages) + 1
      BY <1>4, <1>5, <1>6, <3>1, <3>2
    <3>3. CASE i # Len(messages) + 1
      <4>1. i \in 2..Len(messages) /\ i - 1 \in 1..Len(messages) /\ i \in 1..Len(messages)
        BY <1>5, <1>6, <3>3
      <4> QED
        BY <1>6, <2>1, <4>1 DEF AnswersFollow
    <3> QED
      BY <3>2, <3>3
  <2> QED
    BY <1>9, <2>1 DEF AnswersFollow
<1>12. FormsOnce'
  <2>1. \A i : OpenForm(i)' =>
           \/ OpenForm(i) /\ messages'[i] = messages[i]
           \/ i = Len(messages) + 1 /\ messages'[i].turn = p.turn
    BY <1>4, <1>5, <1>6 DEF OpenForm
  <2>2. \A turn : SentIn(agentSent', turn) <=> SentIn(agentSent, turn)
    BY <1>7 DEF SentIn
  <2>3. ~SentIn(agentSent, p.turn) /\ \A i : OpenForm(i) => messages[i].turn # p.turn
    BY DEF ChatInv, FormsOnce
  <2>4. \A i : OpenForm(i)' => messages'[i].turn < agentClicks /\ ~SentIn(agentSent, messages'[i].turn)
    BY <1>3, <2>1, <2>3 DEF ChatInv, FormsOnce
  <2>5. \A i, j : OpenForm(i)' /\ OpenForm(j)' /\ messages'[i].turn = messages'[j].turn => i = j
    BY <2>1, <2>3 DEF ChatInv, FormsOnce
  <2> QED
    BY <1>7, <1>9, <2>2, <2>4, <2>5 DEF ChatInv, FormsOnce
<1> QED
  BY <1>8, <1>10, <1>11, <1>12 DEF ChatInv

LEMMA ChatWelcomed ==
  ASSUME ChatInv, NEW p \in agentPending, p.kind = "tools", Agent!AnswerTools(p),
         UNCHANGED agentClicks
  PROVE  ChatInv'
<1>1. PICK w : w = Agent!Welcome
  OBVIOUS
<1>2. w \in ChatMessage /\ w.by = "welcome" /\ w.form = FALSE
  BY <1>1 DEF Agent!Welcome, ChatMessage
<1>3. /\ messages' = <<w>> /\ agentPending' = agentPending \ {p}
      /\ UNCHANGED <<loading, agentSent, agentClicks>>
  BY <1>1 DEF Agent!AnswerTools, Agent!Only
<1>4. ~replaced' => Len(messages) = 1
  <2>1. ~replaced' => ~(Len(messages) > 1)
    BY Zenon DEF Agent!AnswerTools
  <2>2. ~(Len(messages) > 1) => Len(messages) = 1
    <3>1. \A n \in Nat : n > 0 /\ ~(n > 1) => n = 1
      OBVIOUS
    <3>2. Len(messages) \in Nat /\ Len(messages) > 0
      BY DEF ChatInv, ChatTypes
    <3> QED
      BY <3>1, <3>2, Zenon
  <2> QED
    BY <2>1, <2>2, Zenon
<1>5. ChatTypes'
  BY <1>2, <1>3 DEF ChatInv, ChatTypes
<1>6. p = [kind |-> "tools"] /\ ~replaced
  BY DEF ChatInv, OneQuestion
<1>7. OneQuestion'
  BY <1>3, <1>6 DEF ChatInv, OneQuestion
<1>8. ~replaced' => AnswersFollow'
  <2> SUFFICES ASSUME ~replaced' PROVE AnswersFollow'
    OBVIOUS
  <2>1. Len(messages) = 1
    BY <1>4, Zenon
  <2>2. \A q \in agentPending : q.kind # "chat"
    <3>1. AnswersFollow /\ messages[1].by # "user"
      BY <1>6 DEF ChatInv, ChatTypes
    <3> QED
      BY <2>1, <3>1 DEF AnswersFollow
  <2> QED
    BY <1>3, <2>2 DEF AnswersFollow
<1>9. FormsOnce'
  <2>1. \A i : ~OpenForm(i)'
    BY <1>2, <1>3 DEF OpenForm
  <2>2. \A turn : SentIn(agentSent', turn) <=> SentIn(agentSent, turn)
    BY <1>3 DEF SentIn
  <2> QED
    BY <1>3, <2>1, <2>2 DEF ChatInv, FormsOnce
<1> QED
  BY <1>5, <1>7, <1>8, <1>9 DEF ChatInv

-----------------------------------------------------------------------------
(* The settings *)

\* Nothing of a page changes but what it asks for, which is none of its kinds.
LEMMA SettingsStay ==
  ASSUME SettingsInv,
         UNCHANGED <<config, customs, text, all, enabled, draft, editing, loaded, agentEarly,
                     unsaved>>,
         \A p : p.kind = "save" => (p \in agentPending' <=> p \in agentPending),
         \A p \in agentPending' : p.kind = "tool" => p \in agentPending
  PROVE  SettingsInv'
BY DEF SettingsInv, SettingsTypes, TextKept, TicksKept, ToolsKept, Agent!Ticked, Agent!Allowed

LEMMA TicksSubset ==
  ASSUME SettingsInv PROVE IsTools(Agent!Ticked)
BY DEF SettingsInv, SettingsTypes, Agent!Ticked, IsTools

LEMMA SettingsSaved ==
  ASSUME SettingsInv, NEW reload \in BOOLEAN, Agent!Save(reload) PROVE SettingsInv'
<1>1. PICK q : q = [kind |-> "save", reload |-> reload, at |-> agentClicks,
                    body |-> [text |-> text, tools |-> Agent!Ticked]]
  OBVIOUS
<1>2. q.kind = "save" /\ q.body.text = text /\ q.body.tools = Agent!Ticked
  BY <1>1
<1>3. /\ agentPending' = agentPending \cup {q}
      /\ UNCHANGED <<config, customs, text, all, enabled, draft, editing, loaded>>
  BY <1>1 DEF Agent!Save, Agent!toolForm
<1>4. ~agentEarly' => ~agentEarly /\ loaded
  BY Zenon DEF Agent!Save
<1>5. ~unsaved' => \A p \in agentPending : p.kind # "save"
  BY Zenon DEF Agent!Save
<1>6. SettingsTypes' /\ ToolsKept'
  BY <1>2, <1>3, TicksSubset DEF SettingsInv, SettingsTypes, ToolsKept
<1>7. TextKept'
  BY <1>2, <1>3, <1>4 DEF SettingsInv, TextKept
<1>8. TicksKept'
  <2>1. Agent!Ticked' = Agent!Ticked
    BY <1>3 DEF Agent!Ticked
  <2> QED
    BY <1>2, <1>3, <1>5, <2>1 DEF TicksKept
<1> QED
  BY <1>6, <1>7, <1>8 DEF SettingsInv

LEMMA SettingsLoaded ==
  ASSUME SettingsInv, NEW p \in agentPending, p.kind = "load", Agent!AnswerLoad(p)
  PROVE  SettingsInv'
<1>1. /\ agentPending' = agentPending \ {p}
      /\ UNCHANGED <<config, customs, draft, editing, agentEarly>>
  BY DEF Agent!AnswerLoad, Agent!Only, Agent!toolForm
<1>2. CASE UNCHANGED <<text, all, enabled, loaded, unsaved>>
  BY <1>1, <1>2, SettingsStay
<1>3. CASE /\ text' = config.text
           /\ all' <=> config.tools \in {None, {}}
           /\ enabled' = IF config.tools = None THEN {} ELSE config.tools
           /\ ~unsaved' => \A q \in agentPending : q.kind # "save"
  <2>1. SettingsTypes'
    BY <1>1, <1>3 DEF SettingsInv, SettingsTypes, IsTools
  <2>2. TextKept'
    BY <1>1, <1>3 DEF SettingsInv, TextKept
  <2>3. ToolsKept'
    BY <1>1 DEF SettingsInv, ToolsKept
  <2>4. TicksKept'
    <3>1. \A q \in agentPending' : q.kind = "save" => unsaved'
      BY <1>1, <1>3
    <3>2. Agent!Allowed' = IF all' THEN Builtin ELSE enabled'
      BY <1>1, <1>3 DEF Agent!Allowed
    <3> QED
      BY <3>1, <3>2 DEF TicksKept
  <2> QED
    BY <2>1, <2>2, <2>3, <2>4 DEF SettingsInv
<1>4. \/ UNCHANGED <<text, all, enabled, loaded, unsaved>>
      \/ /\ text' = config.text /\ all' = (config.tools \in {None, {}})
         /\ enabled' = IF config.tools = None THEN {} ELSE config.tools
         /\ unsaved' = \E q \in agentPending : q.kind = "save"
  BY Zenon DEF Agent!AnswerLoad
<1>5. all' = (config.tools \in {None, {}}) => (all' <=> config.tools \in {None, {}})
  BY Zenon
<1>6. unsaved' = (\E q \in agentPending : q.kind = "save") =>
         (~unsaved' => \A q \in agentPending : q.kind # "save")
  BY Zenon
<1> QED
  BY <1>2, <1>3, <1>4, <1>5, <1>6, Zenon

LEMMA SettingsStored ==
  ASSUME SettingsInv, NEW p \in agentPending, p.kind = "save", Agent!AnswerSave(p)
  PROVE  SettingsInv'
<1>1. /\ UNCHANGED <<customs, text, all, enabled, draft, editing, loaded, agentEarly>>
      /\ \A q \in agentPending' : q \in agentPending \/ q.kind = "load"
      /\ \A q \in agentPending : q # p => q \in agentPending'
      /\ \/ config' = p.body /\ UNCHANGED unsaved
         \/ UNCHANGED config /\ unsaved' = TRUE
  BY DEF Agent!AnswerSave, Agent!Only, Agent!ToLoad, Agent!toolForm
<1>2. SettingsTypes'
  BY <1>1 DEF SettingsInv, SettingsTypes
<1>3. TextKept'
  BY <1>1 DEF SettingsInv, TextKept
<1>4. ToolsKept'
  BY <1>1 DEF SettingsInv, ToolsKept
<1>5. TicksKept'
  <2> SUFFICES ASSUME loaded', ~unsaved' PROVE TicksKept'
    BY DEF TicksKept
  <2>1. /\ loaded /\ ~unsaved /\ config' = p.body
    BY <1>1
  <2>2. Agent!Ticked' = Agent!Ticked /\ p.body.tools = Agent!Ticked
    BY <1>1, <2>1 DEF SettingsInv, TicksKept, Agent!Ticked
  <2>3. enabled # None
    BY NoneIsNoSet DEF SettingsInv, SettingsTypes
  <2>4. Agent!Ticked' = {} \/ Agent!Allowed' = IF all' THEN Builtin ELSE enabled'
    BY <1>1, <2>1, <2>2, <2>3 DEF Agent!Ticked, Agent!Allowed
  <2>5. \A q \in agentPending' : q.kind = "save" => q.body.tools = Agent!Ticked'
    BY <1>1, <2>1, <2>2 DEF SettingsInv, TicksKept
  <2> QED
    BY <2>4, <2>5 DEF TicksKept
<1> QED
  BY <1>2, <1>3, <1>4, <1>5 DEF SettingsInv

\* What a tool's form holds, and what it was sent, is that tool's or was typed.
LEMMA SettingsTool ==
  ASSUME SettingsInv, ToolsKept',
         UNCHANGED <<config, text, all, enabled, loaded, agentEarly, unsaved>>,
         \A p : p.kind = "save" => (p \in agentPending' <=> p \in agentPending)
  PROVE  SettingsInv'
BY DEF SettingsInv, SettingsTypes, TextKept, TicksKept, Agent!Ticked, Agent!Allowed

LEMMA SettingsToolStored ==
  ASSUME SettingsInv, NEW p \in agentPending, p.kind = "tool", Agent!AnswerTool(p)
  PROVE  SettingsInv'
<1>1. /\ UNCHANGED <<config, text, all, enabled, loaded, agentEarly, unsaved>>
      /\ \A q \in agentPending' : q \in agentPending \/ q.kind = "load"
      /\ \A q \in agentPending : q # p => q \in agentPending'
      /\ \/ /\ draft' = None /\ editing' = None
            /\ \E c \in Custom : /\ p.of = None \/ c = p.of
                                 /\ customs' = [customs EXCEPT ![c] = p.draft]
         \/ UNCHANGED <<customs, draft, editing>>
  BY DEF Agent!AnswerTool, Agent!Only, Agent!ToLoad, Agent!toolForm
<1>2. p.draft \in {None, "typed"} \/ (p.of # None /\ p.draft \in {p.of, "typed"})
  BY DEF SettingsInv, ToolsKept, ToolDraft
<1>3. ToolsKept'
  <2>1. CASE UNCHANGED <<customs, draft, editing>>
    BY <1>1, <2>1 DEF SettingsInv, ToolsKept
  <2>2. ASSUME NEW c \in Custom, p.of = None \/ c = p.of, draft' = None, editing' = None,
               customs' = [customs EXCEPT ![c] = p.draft]
        PROVE  ToolsKept'
    <3>1. /\ customs' = [d \in Custom |-> customs'[d]]
          /\ \A d \in Custom : customs'[d] = IF d = c THEN p.draft ELSE customs[d]
      BY <2>2 DEF SettingsInv, ToolsKept
    <3>2. p.draft \in {None, c, "typed"}
      BY <1>2, <2>2
    <3> QED
      BY <1>1, <2>2, <3>1, <3>2 DEF SettingsInv, ToolsKept, ToolDraft
  <2> QED
    BY <1>1, <2>1, <2>2
<1>4. \A q : q.kind = "save" => (q \in agentPending' <=> q \in agentPending)
  BY <1>1
<1> QED
  BY <1>1, <1>3, <1>4, SettingsTool

LEMMA SettingsToolRemoved ==
  ASSUME SettingsInv, NEW p \in agentPending, p.kind = "remove", Agent!AnswerRemove(p)
  PROVE  SettingsInv'
<1>1. /\ UNCHANGED <<config, text, all, enabled, draft, editing, loaded, agentEarly, unsaved>>
      /\ \A q \in agentPending' : q \in agentPending \/ q.kind = "load"
      /\ \A q \in agentPending : q # p => q \in agentPending'
      /\ customs' = [customs EXCEPT ![p.of] = None] \/ UNCHANGED customs
  BY DEF Agent!AnswerRemove, Agent!Only, Agent!ToLoad, Agent!toolForm
<1>2. ToolsKept'
  BY <1>1 DEF SettingsInv, ToolsKept
<1>3. \A q : q.kind = "save" => (q \in agentPending' <=> q \in agentPending)
  BY <1>1
<1> QED
  BY <1>1, <1>2, <1>3, SettingsTool

-----------------------------------------------------------------------------
(* Both pages *)

LEMMA AgentSettings ==
  ASSUME AgentInv,
         \/ Agent!EditText \/ Agent!ToggleAll \/ Agent!TypeTool \/ Agent!Cancel \/ Agent!SaveTool
         \/ \E b \in Builtin : Agent!ToggleBuiltin(b)
         \/ \E reload \in BOOLEAN : Agent!Save(reload)
         \/ \E c \in Custom : Agent!EditTool(c) \/ Agent!RemoveTool(c)
  PROVE  AgentInv'
<1> USE DEF AgentInv, Agent!SettingsClick, Agent!Click, Agent!chatPart
<1>1. \/ agentPending' = agentPending
      \/ \E q : agentPending' = agentPending \cup {q} /\ q.kind \in {"save", "tool", "remove"}
  <2>1. ASSUME NEW reload \in BOOLEAN, Agent!Save(reload) PROVE <1>1
    BY <2>1 DEF Agent!Save
  <2>2. CASE Agent!SaveTool
    BY <2>2 DEF Agent!SaveTool, Agent!Ask
  <2>3. ASSUME NEW c \in Custom, Agent!RemoveTool(c) PROVE <1>1
    BY <2>3 DEF Agent!RemoveTool, Agent!Ask
  <2> QED
    BY <2>1, <2>2, <2>3 DEF Agent!EditText, Agent!ToggleAll, Agent!TypeTool, Agent!Cancel,
       Agent!ToggleBuiltin, Agent!EditTool
<1>2. UNCHANGED <<messages, loading, agentSent, replaced>> /\ agentClicks' = agentClicks + 1
  BY DEF Agent!EditText, Agent!ToggleAll, Agent!TypeTool, Agent!Cancel, Agent!ToggleBuiltin,
     Agent!EditTool, Agent!SaveTool, Agent!RemoveTool, Agent!Ask, Agent!Save
<1>3. ChatInv'
  <2>1. \A p \in agentPending' : p.kind \in {"chat", "tools"} => p \in agentPending
    BY <1>1
  <2> QED
    BY <1>2, <2>1, ChatStays
<1>4. SettingsInv'
  <2>1. CASE Agent!EditText
    BY <2>1 DEF Agent!EditText, Agent!toolForm, SettingsInv, SettingsTypes, TextKept, TicksKept,
       ToolsKept, Agent!Ticked, Agent!Allowed
  <2>2. CASE Agent!ToggleAll
    <3>1. /\ unsaved' = TRUE /\ enabled' \in {enabled, {}}
          /\ UNCHANGED <<config, customs, text, draft, editing, loaded, agentEarly, agentPending>>
      BY <2>2 DEF Agent!ToggleAll, Agent!toolForm
    <3> QED
      BY <3>1 DEF SettingsInv, SettingsTypes, TextKept, TicksKept, ToolsKept
  <2>3. CASE Agent!TypeTool
    <3>1. ToolsKept'
      BY <2>3 DEF Agent!TypeTool, SettingsInv, ToolsKept, ToolDraft
    <3> QED
      BY <2>3, <3>1, SettingsTool DEF Agent!TypeTool
  <2>4. CASE Agent!Cancel
    <3>1. ToolsKept'
      BY <2>4 DEF Agent!Cancel, SettingsInv, ToolsKept, ToolDraft
    <3> QED
      BY <2>4, <3>1, SettingsTool DEF Agent!Cancel
  <2>5. CASE Agent!SaveTool
    <3>1. PICK q : q = [kind |-> "tool", of |-> editing, draft |-> draft]
      OBVIOUS
    <3>2. /\ q.kind = "tool" /\ q.of = editing /\ q.draft = draft
          /\ agentPending' = agentPending \cup {q}
          /\ UNCHANGED <<config, customs, text, all, enabled, draft, editing, loaded, agentEarly,
                         unsaved>>
      BY <2>5, <3>1 DEF Agent!SaveTool, Agent!Ask, Agent!settingsPart, Agent!toolForm
    <3>3. ToolsKept'
      BY <3>2 DEF SettingsInv, ToolsKept
    <3> QED
      BY <3>2, <3>3, SettingsTool
  <2>6. ASSUME NEW b \in Builtin, Agent!ToggleBuiltin(b) PROVE SettingsInv'
    <3>1. /\ unsaved' = TRUE /\ enabled' \in {enabled \ {b}, enabled \cup {b}}
          /\ UNCHANGED <<config, customs, text, draft, editing, loaded, agentEarly, agentPending>>
      BY <2>6 DEF Agent!ToggleBuiltin, Agent!toolForm
    <3> QED
      BY <3>1 DEF SettingsInv, SettingsTypes, TextKept, TicksKept, ToolsKept
  <2>7. ASSUME NEW c \in Custom, Agent!EditTool(c) PROVE SettingsInv'
    <3>1. ToolsKept'
      BY <2>7 DEF Agent!EditTool, SettingsInv, ToolsKept, ToolDraft
    <3> QED
      BY <2>7, <3>1, SettingsTool DEF Agent!EditTool
  <2>8. ASSUME NEW c \in Custom, Agent!RemoveTool(c) PROVE SettingsInv'
    <3>1. PICK q : q = [kind |-> "remove", of |-> c]
      OBVIOUS
    <3>2. /\ q.kind = "remove" /\ agentPending' = agentPending \cup {q}
          /\ UNCHANGED <<config, customs, text, all, enabled, draft, editing, loaded, agentEarly,
                         unsaved>>
      BY <2>8, <3>1 DEF Agent!RemoveTool, Agent!Ask, Agent!settingsPart, Agent!toolForm
    <3> QED
      BY <3>2, SettingsStay
  <2> QED
    BY <2>1, <2>2, <2>3, <2>4, <2>5, <2>6, <2>7, <2>8, SettingsSaved
<1> QED
  BY <1>3, <1>4

LEMMA AgentSends ==
  ASSUME AgentInv, NEW form \in 0..Len(messages), Agent!Send(form) PROVE AgentInv'
<1>1. PICK q : q = [kind |-> "chat", turn |-> agentClicks]
  OBVIOUS
<1>2. /\ q.kind = "chat" /\ agentPending' = agentPending \cup {q}
      /\ UNCHANGED <<config, customs, text, all, enabled, draft, editing, loaded, agentEarly,
                     unsaved>>
  BY <1>1 DEF Agent!Send, Agent!settingsPart, Agent!toolForm
<1> QED
  BY <1>2, ChatAsked, SettingsStay DEF AgentInv

LEMMA AgentAnswers ==
  ASSUME AgentInv, NEW p \in agentPending, Agent!Answer(p) PROVE AgentInv'
<1>1. agentClicks' = agentClicks
  BY DEF Agent!Answer
<1>2. CASE p.kind = "chat" /\ Agent!AnswerChat(p)
  <2>1. /\ agentPending' = agentPending \ {p}
        /\ UNCHANGED <<config, customs, text, all, enabled, draft, editing, loaded, agentEarly,
                       unsaved>>
    BY <1>2 DEF Agent!AnswerChat, Agent!Only, Agent!settingsPart, Agent!toolForm
  <2> QED
    BY <1>1, <1>2, <2>1, ChatAnswered, SettingsStay DEF AgentInv
<1>3. CASE p.kind = "tools" /\ Agent!AnswerTools(p)
  <2>1. /\ agentPending' = agentPending \ {p}
        /\ UNCHANGED <<config, customs, text, all, enabled, draft, editing, loaded, agentEarly,
                       unsaved>>
    BY <1>3 DEF Agent!AnswerTools, Agent!Only, Agent!settingsPart, Agent!toolForm
  <2> QED
    BY <1>1, <1>3, <2>1, ChatWelcomed, SettingsStay DEF AgentInv
<1>4. CASE /\ UNCHANGED Agent!chatPart
           /\ \/ p.kind = "load" /\ Agent!AnswerLoad(p)
              \/ p.kind = "save" /\ Agent!AnswerSave(p)
              \/ p.kind = "tool" /\ Agent!AnswerTool(p)
              \/ p.kind = "remove" /\ Agent!AnswerRemove(p)
  <2>1. \A q \in agentPending' : q \in agentPending \/ q.kind = "load"
    <3>1. Agent!AnswerLoad(p) => agentPending' = agentPending \ {p}
      BY Zenon DEF Agent!AnswerLoad, Agent!Only
    <3>2. Agent!AnswerSave(p) \/ Agent!AnswerTool(p) \/ Agent!AnswerRemove(p) => <2>1
      BY DEF Agent!AnswerSave, Agent!AnswerTool, Agent!AnswerRemove, Agent!Only, Agent!ToLoad
    <3> QED
      BY <1>4, <3>1, <3>2
  <2>2. ChatInv'
    <3>1. \A q \in agentPending' : q.kind \in {"chat", "tools"} => q \in agentPending
      BY <2>1
    <3> QED
      BY <1>1, <1>4, <3>1, ChatStays DEF AgentInv, Agent!chatPart
  <2> QED
    BY <1>4, <2>2, SettingsLoaded, SettingsStored, SettingsToolStored, SettingsToolRemoved
       DEF AgentInv
<1> QED
  BY <1>2, <1>3, <1>4 DEF Agent!Answer

LEMMA AgentNextInv == ASSUME AgentInv, [Agent!AgentNext]_agentPart PROVE AgentInv'
<1>1. CASE UNCHANGED agentPart
  <2>1. /\ UNCHANGED <<config, customs, text, all, enabled, draft, editing, loaded, agentEarly,
                       unsaved>>
        /\ UNCHANGED <<messages, loading, agentSent, replaced, agentPending, agentClicks>>
    BY <1>1 DEF agentPart
  <2> QED
    BY <2>1, ChatStays, SettingsStay DEF AgentInv
<1> QED
  BY <1>1, AgentSends, AgentSettings, AgentAnswers DEF Agent!AgentNext

LEMMA AgentIsRight == AgentInv => Agent!AgentAsSet
<1> SUFFICES ASSUME AgentInv PROVE Agent!AgentAsSet
  OBVIOUS
<1>1. agentSent \in Seq(Nat)
  BY DEF AgentInv, ChatInv, ChatTypes
<1>2. \A i, j \in DOMAIN agentSent : agentSent[i] = agentSent[j] => i = j
  BY <1>1 DEF AgentInv, ChatInv, FormsOnce
<1>3. agentEarly \/ config.text # "blank"
  BY DEF AgentInv, SettingsInv, TextKept
<1>4. \/ ~loaded \/ unsaved \/ Agent!Ticked = {} \/ \E p \in agentPending : p.kind = "save"
      \/ Agent!Allowed = (IF all THEN Builtin ELSE enabled)
  BY DEF AgentInv, SettingsInv, TicksKept
<1>5. \A c \in Custom : customs[c] \in {None, c, "typed"}
  BY DEF AgentInv, SettingsInv, ToolsKept
<1> QED
  <2>1. replaced \/ \A i \in 2..Len(messages) : messages[i].by = "agent" =>
           messages[i - 1].by = "user" /\ messages[i - 1].turn = messages[i].turn
    BY DEF AgentInv, ChatInv, AnswersFollow
  <2> QED
    BY <1>2, <1>3, <1>4, <1>5, <2>1, Zenon DEF Agent!AgentAsSet

-----------------------------------------------------------------------------
(* The first steps of a tenant (OnboardingWizard) *)

WizardOperation == {"bootstrap", "gateway", "device"}
WizardLoad == {"wizard", "dashboard"}

IsWizardLoad(l) ==
    /\ l = [kind |-> l.kind, then |-> l.then, at |-> l.at, got |-> l.got]
    /\ l.kind \in WizardLoad
    /\ DOMAIN l.got = (IF l.kind = "wizard" THEN {1, 2} ELSE {1})
    /\ l.got = [i \in DOMAIN l.got |-> l.got[i]]

WizardShapes ==
    /\ have \subseteq Wizard!Thing /\ wizardFailed \in Nat
    /\ \A p \in wizardPending : p.kind \in WizardOperation \/ IsWizardLoad(p)

\* The buttons are held for the one operation on its way.
OneOperation ==
    /\ wizardBusy \in BOOLEAN
    /\ wizardBusy = TRUE <=> \E p \in wizardPending : p.kind \in WizardOperation
    /\ \A p, q \in wizardPending :
          p.kind \in WizardOperation /\ q.kind \in WizardOperation => p = q

\* What the tenant has, but for traffic that may have come since.
AgreesWithTenant(things) ==
    things \subseteq Wizard!Thing /\ things \cup {"traffic"} = have \cup {"traffic"}

LoadAgrees(l) == l.got[1] = Waiting \/ AgreesWithTenant(l.got[1])

Reloads(l) == l.kind = "wizard" /\ l.then # 0

WizardCalm ==
    /\ \A l, m \in wizardPending : l.kind \in WizardLoad /\ l.kind = m.kind => l = m
    /\ \A l \in wizardPending : l.kind = "wizard" => LoadAgrees(l)
    /\ (\A l \in wizardPending : l.kind # "wizard") => AgreesWithTenant(wizardStatus)
    /\ \/ \E l \in wizardPending : Reloads(l)
       \/ /\ \A l \in wizardPending : l.kind = "dashboard" => LoadAgrees(l)
          /\ (\A l \in wizardPending : l.kind # "dashboard") => AgreesWithTenant(counts)

WizardInv ==
    /\ WizardShapes /\ OneOperation
    /\ wizardFailed = 0 /\ ~overlapped => WizardCalm

LEMMA WizardInitInv == Wizard!WizardInit => WizardInv
<1> SUFFICES ASSUME Wizard!WizardInit PROVE WizardInv
  OBVIOUS
<1> DEFINE w == Wizard!Load("wizard", 0)
           d == Wizard!Load("dashboard", 0)
<1>1. wizardClicks = 0 /\ wizardFailed = 0 /\ wizardBusy = FALSE /\ have \subseteq Wizard!Thing
  BY DEF Wizard!WizardInit, Wizard!Prerequisites, Wizard!Thing
<1>2. wizardPending = {[kind |-> of, then |-> 0, at |-> 0, got |-> Wizard!Unserved(of)] :
                          of \in {"wizard", "dashboard"}}
  BY DEF Wizard!WizardInit
<1>3. wizardPending = {w, d}
  BY <1>1, <1>2 DEF Wizard!Load
<1>4. /\ IsWizardLoad(w) /\ w.kind = "wizard" /\ w.got[1] = Waiting
      /\ IsWizardLoad(d) /\ d.kind = "dashboard" /\ d.got[1] = Waiting
  BY DEF Wizard!Load, Wizard!Unserved, IsWizardLoad, WizardLoad
<1> HIDE DEF w, d
<1> QED
  BY <1>1, <1>3, <1>4 DEF WizardInv, WizardShapes, OneOperation, WizardCalm, WizardOperation,
     WizardLoad, LoadAgrees

\* A new load has been served nothing.
LEMMA WizardLoads ==
  ASSUME NEW of \in WizardLoad, NEW then
  PROVE  LET l == Wizard!Load(of, then)
         IN  IsWizardLoad(l) /\ l.kind = of /\ l.then = then /\ l.got[1] = Waiting
BY DEF Wizard!Load, Wizard!Unserved, IsWizardLoad, WizardLoad

LEMMA WizardClicked ==
  ASSUME WizardInv, NEW operation \in WizardOperation, Wizard!Request(operation)
  PROVE  WizardInv'
<1>1. PICK p : p = [kind |-> operation]
  OBVIOUS
<1>2. /\ wizardPending' = wizardPending \cup {p} /\ wizardBusy # TRUE /\ wizardBusy' = TRUE
      /\ UNCHANGED <<have, wizardStatus, counts, overlapped, wizardFailed>>
      /\ p.kind \in WizardOperation
  BY <1>1 DEF Wizard!Request
<1> QED
  BY <1>2 DEF WizardInv, WizardShapes, OneOperation, WizardCalm, WizardOperation, WizardLoad,
     LoadAgrees, Reloads, AgreesWithTenant, IsWizardLoad

LEMMA WizardRefreshed == ASSUME WizardInv, Wizard!Refresh PROVE WizardInv'
<1>1. PICK w : w = Wizard!Load("wizard", 0)
  OBVIOUS
<1>2. PICK d : d = Wizard!Load("dashboard", 0)
  OBVIOUS
<1>3. /\ IsWizardLoad(w) /\ w.kind = "wizard" /\ w.got[1] = Waiting
      /\ IsWizardLoad(d) /\ d.kind = "dashboard" /\ d.got[1] = Waiting
  BY <1>1, <1>2, WizardLoads DEF WizardLoad
<1>4. /\ wizardPending' = wizardPending \cup {w, d}
      /\ overlapped' = (overlapped \/ \E l \in {w, d}, m \in wizardPending : l.kind = m.kind)
      /\ UNCHANGED <<have, wizardStatus, wizardBusy, counts, wizardFailed>>
  BY <1>1, <1>2 DEF Wizard!Refresh, Wizard!Start
<1>5. ~overlapped' => ~overlapped /\ \A l \in {w, d}, m \in wizardPending : l.kind # m.kind
  BY <1>4, Zenon
<1>6. WizardShapes' /\ OneOperation'
  BY <1>3, <1>4 DEF WizardInv, WizardShapes, OneOperation, WizardOperation, WizardLoad,
     IsWizardLoad
<1>7. wizardFailed' = 0 /\ ~overlapped' => WizardCalm'
  BY <1>3, <1>4, <1>5 DEF WizardInv, WizardCalm, WizardLoad, LoadAgrees, Reloads, AgreesWithTenant
<1> QED
  BY <1>6, <1>7 DEF WizardInv

LEMMA WizardAnswered ==
  ASSUME WizardInv, NEW p \in wizardPending, Wizard!Answer(p)
  PROVE  WizardInv'
<1>1. /\ p.kind \in WizardOperation /\ wizardBusy' = FALSE
      /\ UNCHANGED <<wizardStatus, counts, wizardClicks>>
  BY DEF Wizard!Answer, WizardOperation
<1>2. CASE /\ \E step \in {2, 3, 4} : Wizard!Done(p, step)
           /\ have' \subseteq Wizard!Thing /\ UNCHANGED wizardFailed
  <2>1. PICK step \in {2, 3, 4} : Wizard!Done(p, step)
    BY <1>2
  <2>2. PICK w : w = Wizard!Load("wizard", step)
    OBVIOUS
  <2>3. IsWizardLoad(w) /\ w.kind = "wizard" /\ w.then = step /\ w.got[1] = Waiting
    BY <2>2, WizardLoads DEF WizardLoad
  <2>4. /\ wizardPending' = (wizardPending \ {p}) \cup {w}
        /\ overlapped' = (overlapped \/ \E l \in {w}, m \in wizardPending \ {p} : l.kind = m.kind)
    BY <2>1, <2>2 DEF Wizard!Done, Wizard!Start
  <2>5. ~overlapped' => ~overlapped /\ \A m \in wizardPending \ {p} : m.kind # w.kind
    BY <2>4, Zenon
  <2>6. WizardShapes' /\ OneOperation'
    BY <1>1, <1>2, <2>3, <2>4 DEF WizardInv, WizardShapes, OneOperation, WizardOperation,
       WizardLoad, IsWizardLoad
  <2>7. wizardFailed' = 0 /\ ~overlapped' => WizardCalm'
    BY <1>1, <1>2, <2>3, <2>4, <2>5 DEF WizardInv, WizardCalm, WizardLoad, WizardOperation,
       LoadAgrees, Reloads, AgreesWithTenant
  <2> QED
    BY <2>6, <2>7 DEF WizardInv
<1>3. CASE /\ wizardFailed' = wizardFailed + 1 /\ wizardPending' = wizardPending \ {p}
           /\ have' \subseteq Wizard!Thing
  <2>1. wizardFailed' \in Nat /\ ~(wizardFailed' = 0)
    BY <1>3 DEF WizardInv, WizardShapes
  <2>2. WizardShapes'
    BY <1>3, <2>1 DEF WizardInv, WizardShapes, IsWizardLoad
  <2>3. OneOperation'
    BY <1>1, <1>3 DEF WizardInv, OneOperation
  <2> QED
    BY <2>1, <2>2, <2>3 DEF WizardInv
<1>4. p.kind = "bootstrap" \/ p.kind = "gateway" \/ p.kind = "device"
  BY <1>1 DEF WizardOperation
<1> QED
  <2>1. have \subseteq Wizard!Thing
    BY DEF WizardInv, WizardShapes
  <2>2. PICK made : made = (IF p.kind = "bootstrap" THEN Wizard!Prerequisites ELSE {p.kind})
    OBVIOUS
  <2>3. PICK step : step = (CASE p.kind = "bootstrap" -> 2 [] p.kind = "gateway" -> 3
                              [] p.kind = "device" -> 4)
    OBVIOUS
  <2>4. made \subseteq Wizard!Thing
    BY <1>4, <2>2 DEF Wizard!Prerequisites, Wizard!Thing
  <2>5. step \in {2, 3, 4}
    BY <1>4, <2>3
  <2>6. \/ have' = have \cup made /\ UNCHANGED wizardFailed /\ Wizard!Done(p, step)
        \/ /\ wizardFailed' = wizardFailed + 1 /\ wizardPending' = wizardPending \ {p}
           /\ have' \in {have, have \cup made, have \cup {"profile"}}
    BY <2>2, <2>3 DEF Wizard!Answer, Wizard!Well, Wizard!Fault
  <2>7. "profile" \in Wizard!Thing
    BY DEF Wizard!Prerequisites, Wizard!Thing
  <2> QED
    BY <1>2, <1>3, <2>1, <2>4, <2>5, <2>6, <2>7

LEMMA WizardServed ==
  ASSUME WizardInv, NEW l \in wizardPending, Wizard!Serve(l)
  PROVE  WizardInv'
<1>1. PICK i \in DOMAIN l.got : \E answer :
         /\ l.got[i] = Waiting
         /\ (answer = have /\ UNCHANGED wizardFailed) \/ wizardFailed' = wizardFailed + 1
         /\ wizardPending' = (wizardPending \ {l}) \cup {[l EXCEPT !.got[i] = answer]}
  BY DEF Wizard!Serve, Wizard!Well, Wizard!Fault
<1>2. PICK answer :
         /\ l.got[i] = Waiting
         /\ (answer = have /\ UNCHANGED wizardFailed) \/ wizardFailed' = wizardFailed + 1
         /\ wizardPending' = (wizardPending \ {l}) \cup {[l EXCEPT !.got[i] = answer]}
  BY <1>1
<1>3. PICK new : new = [l EXCEPT !.got[i] = answer]
  OBVIOUS
<1>4. /\ l.kind \in WizardLoad
      /\ UNCHANGED <<have, wizardStatus, wizardBusy, counts, overlapped>>
  BY DEF Wizard!Serve, WizardLoad
<1>5. IsWizardLoad(l)
  BY <1>4 DEF WizardInv, WizardShapes, WizardOperation, WizardLoad
<1>6. /\ IsWizardLoad(new) /\ new.kind = l.kind /\ new.then = l.then
      /\ new.got[1] = (IF i = 1 THEN answer ELSE l.got[1])
  BY <1>3, <1>5 DEF IsWizardLoad
<1>7. wizardPending' = (wizardPending \ {l}) \cup {new}
  BY <1>2, <1>3
<1>8. WizardShapes' /\ OneOperation'
  BY <1>2, <1>4, <1>6, <1>7 DEF WizardInv, WizardShapes, OneOperation, WizardOperation,
     WizardLoad, IsWizardLoad
<1>9. wizardFailed' = 0 /\ ~overlapped' => WizardCalm'
  <2> SUFFICES ASSUME wizardFailed' = 0, ~overlapped' PROVE WizardCalm'
    OBVIOUS
  <2>1. wizardFailed = 0 /\ ~overlapped /\ answer = have
    BY <1>2, <1>4 DEF WizardInv, WizardShapes
  <2>2. LoadAgrees(l) => LoadAgrees(new)
    BY <1>6, <2>1 DEF LoadAgrees, AgreesWithTenant, WizardInv, WizardShapes
  <2>3. Reloads(l) => Reloads(new)
    BY <1>6 DEF Reloads
  <2>4. WizardCalm
    BY <2>1 DEF WizardInv
  <2>5. \A things : AgreesWithTenant(things) => AgreesWithTenant(things)'
    BY <1>4 DEF AgreesWithTenant
  <2>6. /\ \A m \in wizardPending' : m = new \/ (m \in wizardPending /\ m # l)
        /\ new \in wizardPending' /\ \A m \in wizardPending : m # l => m \in wizardPending'
    BY <1>7
  <2>7. \A m : LoadAgrees(m) => LoadAgrees(m)'
    BY <2>5 DEF LoadAgrees
  <2>8. \A x, y \in wizardPending' : x.kind \in WizardLoad /\ x.kind = y.kind => x = y
    BY <1>6, <2>4, <2>6 DEF WizardCalm
  <2>9. \A x \in wizardPending' : x.kind = "wizard" => LoadAgrees(x)'
    BY <1>6, <2>2, <2>4, <2>6, <2>7 DEF WizardCalm
  <2>10. (\A x \in wizardPending' : x.kind # "wizard") => AgreesWithTenant(wizardStatus)'
    BY <1>4, <1>6, <2>4, <2>5, <2>6 DEF WizardCalm
  <2>11. \/ \E x \in wizardPending' : Reloads(x)
         \/ /\ \A x \in wizardPending' : x.kind = "dashboard" => LoadAgrees(x)'
            /\ (\A x \in wizardPending' : x.kind # "dashboard") => AgreesWithTenant(counts)'
    BY <1>4, <1>6, <2>2, <2>3, <2>4, <2>5, <2>6, <2>7 DEF WizardCalm
  <2> QED
    BY <1>4, <2>8, <2>9, <2>10, <2>11 DEF WizardCalm, LoadAgrees, AgreesWithTenant, Reloads
<1> QED
  BY <1>8, <1>9 DEF WizardInv

LEMMA WizardDelivered ==
  ASSUME WizardInv, NEW l \in wizardPending, Wizard!Deliver(l)
  PROVE  WizardInv'
<1>1. /\ l.kind \in WizardLoad /\ UNCHANGED <<have, wizardBusy, wizardFailed>>
      /\ \A i \in DOMAIN l.got : l.got[i] # Waiting
  BY DEF Wizard!Deliver, WizardLoad
<1>2. IsWizardLoad(l) /\ l.got[1] # Waiting
  BY <1>1 DEF WizardInv, WizardShapes, WizardOperation, WizardLoad, IsWizardLoad
<1>3. AgreesWithTenant(l.got[1]) => l.got[1] # None
  BY NoneIsNoSet DEF AgreesWithTenant, Wizard!Thing, Wizard!Prerequisites
<1>4. CASE l.kind = "wizard" /\ l.then # 0
  <2>1. PICK d : d = Wizard!Load("dashboard", 0)
    OBVIOUS
  <2>2. IsWizardLoad(d) /\ d.kind = "dashboard" /\ d.got[1] = Waiting
    BY <2>1, WizardLoads DEF WizardLoad
  <2>3. /\ wizardPending' = (wizardPending \ {l}) \cup {d} /\ UNCHANGED counts
        /\ overlapped' = (overlapped \/ \E m \in {d}, n \in wizardPending \ {l} : m.kind = n.kind)
        /\ wizardStatus' = IF l.got[1] = None THEN wizardStatus ELSE l.got[1]
    BY <1>4, <2>1 DEF Wizard!Deliver, Wizard!DeliverWizard, Wizard!Start
  <2>4. ~overlapped' => ~overlapped /\ \A n \in wizardPending \ {l} : n.kind # d.kind
    BY <2>3, Zenon
  <2>5. WizardShapes' /\ OneOperation'
    BY <1>1, <2>2, <2>3 DEF WizardInv, WizardShapes, OneOperation, WizardOperation, WizardLoad,
       IsWizardLoad
  <2>6. wizardFailed' = 0 /\ ~overlapped' => WizardCalm'
    BY <1>1, <1>2, <1>3, <1>4, <2>2, <2>3, <2>4 DEF WizardInv, WizardCalm, WizardLoad,
       LoadAgrees, Reloads, AgreesWithTenant
  <2> QED
    BY <2>5, <2>6 DEF WizardInv
<1>5. CASE l.kind = "wizard" /\ l.then = 0
  <2>1. /\ wizardPending' = wizardPending \ {l} /\ UNCHANGED <<counts, overlapped>>
        /\ wizardStatus' = IF l.got[1] = None THEN wizardStatus ELSE l.got[1]
    BY <1>5 DEF Wizard!Deliver, Wizard!DeliverWizard
  <2>2. WizardShapes' /\ OneOperation'
    BY <1>1, <2>1 DEF WizardInv, WizardShapes, OneOperation, WizardOperation, WizardLoad,
       IsWizardLoad
  <2>3. wizardFailed' = 0 /\ ~overlapped' => WizardCalm'
    BY <1>1, <1>2, <1>3, <1>5, <2>1 DEF WizardInv, WizardCalm, WizardLoad,
       LoadAgrees, Reloads, AgreesWithTenant
  <2> QED
    BY <2>2, <2>3 DEF WizardInv
<1>6. CASE l.kind = "dashboard"
  <2>1. /\ wizardPending' = wizardPending \ {l} /\ UNCHANGED <<wizardStatus, overlapped>>
        /\ counts' = IF l.got[1] = None THEN {} ELSE l.got[1]
    BY <1>6 DEF Wizard!Deliver, Wizard!DeliverDashboard, Wizard!Served
  <2>2. WizardShapes' /\ OneOperation'
    BY <1>1, <2>1 DEF WizardInv, WizardShapes, OneOperation, WizardOperation, WizardLoad,
       IsWizardLoad
  <2>3. wizardFailed' = 0 /\ ~overlapped' => WizardCalm'
    BY <1>1, <1>2, <1>3, <1>6, <2>1 DEF WizardInv, WizardCalm, WizardLoad,
       LoadAgrees, Reloads, AgreesWithTenant
  <2> QED
    BY <2>2, <2>3 DEF WizardInv
<1> QED
  BY <1>1, <1>4, <1>5, <1>6 DEF WizardLoad

LEMMA WizardNextInv == ASSUME WizardInv, [Wizard!WizardNext]_wizardPart PROVE WizardInv'
<1> USE DEF WizardInv, WizardShapes, OneOperation, WizardCalm, LoadAgrees, AgreesWithTenant,
            Reloads
<1>1. CASE UNCHANGED wizardPart
  BY <1>1 DEF wizardPart
<1>2. ASSUME NEW step \in 1..5, Wizard!OpenStep(step) PROVE WizardInv'
  BY <1>2 DEF Wizard!OpenStep
<1>3. CASE Wizard!Bootstrap
  BY <1>3, WizardClicked DEF Wizard!Bootstrap, WizardOperation
<1>4. CASE Wizard!CreateGateway
  BY <1>4, WizardClicked DEF Wizard!CreateGateway, WizardOperation
<1>5. CASE Wizard!CreateDevice
  BY <1>5, WizardClicked DEF Wizard!CreateDevice, WizardOperation
<1>6. CASE Wizard!Traffic
  <2>1. /\ have' = Wizard!Thing /\ have \cup {"traffic"} = have' \cup {"traffic"}
        /\ UNCHANGED <<wizardStatus, wizardBusy, counts, wizardPending, overlapped, wizardFailed>>
    BY <1>6 DEF Wizard!Traffic, Wizard!Thing
  <2> QED
    BY <2>1
<1> QED
  BY <1>1, <1>2, <1>3, <1>4, <1>5, <1>6, WizardRefreshed, WizardAnswered, WizardServed,
     WizardDelivered DEF Wizard!WizardNext

LEMMA StepsAreRight == WizardInv => Wizard!StepsAsDone
<1> SUFFICES ASSUME WizardInv PROVE Wizard!StepsAsDone
  OBVIOUS
<1>1. wizardPending = {} => \/ wizardFailed > 0 \/ overlapped
        \/ \A shown \in {wizardStatus, counts} : shown \cup {"traffic"} = have \cup {"traffic"}
  <2>1. wizardFailed = 0 \/ wizardFailed > 0
    BY DEF WizardInv, WizardShapes
  <2> QED
    BY <2>1 DEF WizardInv, WizardCalm, AgreesWithTenant
<1>2. wizardBusy = (\E p \in wizardPending : p.kind \in {"bootstrap", "gateway", "device"})
  BY Zenon DEF WizardInv, OneOperation, WizardOperation
<1> QED
  BY <1>1, <1>2, Zenon DEF Wizard!StepsAsDone

-----------------------------------------------------------------------------
(* The tenants (TenantsAdmin) *)

TenantTypes ==
    /\ tenantStored = [t \in Tenant |-> tenantStored[t]]
    /\ \A t \in Tenant : LET r == tenantStored[t]
                         IN  r = None \/ r = [name |-> r.name, status |-> r.status, users |-> r.users]
    /\ tenantRows = [t \in Tenant |-> tenantRows[t]] /\ wanted = [t \in Tenant |-> wanted[t]]
    /\ expanded \in Tenant \cup {None} /\ spare \subseteq Tenant
    /\ mount \in Nat /\ tenantFailed \in Nat

\* A tenant not made yet is neither stored nor shown, and nothing is asked of it.
SpareUnseen ==
    \A t \in spare : tenantStored[t] = None /\ wanted[t] = None /\ tenantRows[t] = None

PanelRequest == {"users", "members", "add"}

OfMadeTenant(p) ==
    /\ p.kind = "rows" => p.rows = [t \in Tenant |-> p.rows[t]] /\ \A t \in spare : p.rows[t] = None
    /\ p.kind \in PanelRequest => p.of \in Tenant \ spare /\ p.mount \in 0..mount
    /\ p.kind \in {"status", "remove"} => p.of \in Tenant \ spare
    /\ p.kind = "create" => p.existing \in (Tenant \ spare) \cup {None}

RequestsMade == \A p \in tenantPending : OfMadeTenant(p)

\* The panel now open: what was asked for it is of the tenant unfolded.
PanelOfExpanded ==
    Tenants!Listed(expanded) =>
        \A p \in tenantPending : p.kind \in PanelRequest /\ p.mount = mount => p.of = expanded

MembersStored ==
    \A p \in tenantPending :
        p.kind = "members" /\ tenantStored[p.of] # None => p.users \subseteq tenantStored[p.of].users

Unfolded == Tenants!Listed(expanded) /\ tenantStored[expanded] # None

PanelStored ==
    Unfolded => /\ users \subseteq tenantStored[expanded].users
                /\ tenantCreated # None => tenantCreated \in tenantStored[expanded].users

\* Users are only added by the panel now open, whose list they are missing from
\* only while it is on its way again.
PanelComplete ==
    Unfolded /\ tenantFailed = 0 /\ ~tenantCrossed =>
        /\ \A p \in tenantPending : p.kind = "add" /\ p.of = expanded => p.mount = mount
        /\ \A p \in tenantPending :
              p.kind = "members" /\ p.mount = mount => p.users = tenantStored[expanded].users
        /\ \/ users = tenantStored[expanded].users
           \/ \E p \in tenantPending : p.kind \in {"users", "members"} /\ p.mount = mount

PanelInv == PanelOfExpanded /\ MembersStored /\ PanelStored /\ PanelComplete

\* A button clicked once at a time asks for one status, which the tenant gets.
StatusSettled(t) ==
    /\ \A p \in tenantPending : p.kind = "status" /\ p.of = t => p.to = wanted[t]
    /\ \/ wanted[t] = None \/ tenantStored[t] = None \/ tenantStored[t].status = wanted[t]
       \/ \E p \in tenantPending : p.kind = "status" /\ p.of = t

StatusInv == tenantFailed = 0 => \A t \in Tenant \ doubled : StatusSettled(t)

TenantShapes == TenantTypes /\ SpareUnseen /\ RequestsMade

TenantInv == TenantShapes /\ PanelInv /\ StatusInv

LEMMA TenantInitInv == Tenants!TenantsInit => TenantInv
<1> SUFFICES ASSUME Tenants!TenantsInit PROVE TenantInv
  OBVIOUS
<1>1. PICK t \in Tenant, n \in Name :
        /\ tenantStored = [u \in Tenant |->
              IF u = t THEN [name |-> n, status |-> "active", users |-> {}] ELSE None]
        /\ spare = Tenant \ {t}
  BY DEF Tenants!TenantsInit
<1>2. /\ tenantRows = [u \in Tenant |-> None] /\ expanded = None
      /\ mount = 0 /\ wanted = [u \in Tenant |-> None] /\ tenantFailed = 0
      /\ \A p \in tenantPending : p.kind = "tenants"
  BY DEF Tenants!TenantsInit, Tenants!LoadTenants
<1>3. TenantTypes /\ SpareUnseen
  BY <1>1, <1>2 DEF TenantTypes, SpareUnseen
<1>4. RequestsMade /\ MembersStored
  BY <1>2 DEF RequestsMade, OfMadeTenant, PanelRequest, MembersStored
<1>5. ~Tenants!Listed(expanded)
  BY <1>2 DEF Tenants!Listed
<1>6. StatusInv
  BY <1>2 DEF StatusInv, StatusSettled
<1> QED
  BY <1>3, <1>4, <1>5, <1>6 DEF TenantInv, TenantShapes, PanelInv, PanelOfExpanded, PanelStored,
     PanelComplete, Unfolded

LEMMA TenantMounts ==
  ASSUME TenantTypes, NEW rest, Tenants!ShowPanel(rest) PROVE mount' \in Nat
<1>1. mount' = mount + 1 \/ mount' = mount
  BY Zenon DEF Tenants!ShowPanel, Tenants!panel
<1> QED
  BY <1>1 DEF TenantTypes

\* What is asked of the panel stays with it when another tenant is unfolded, or
\* the list comes: then a new panel starts with nothing and asks for its users.
LEMMA TenantPanels ==
  ASSUME TenantInv, TenantTypes', SpareUnseen', NEW rest, Tenants!ShowPanel(rest),
         \A p \in rest : p.kind \in PanelRequest => p \in tenantPending,
         \A p \in tenantPending : p.kind \in {"users", "members"} => p \in rest,
         \A p \in rest : OfMadeTenant(p), spare' \subseteq spare,
         \A t \in Tenant \ spare : tenantStored'[t] = tenantStored[t],
         tenantFailed' = 0 => tenantFailed = 0,
         Tenants!Listed(expanded)' => expanded' \notin spare,
         tenantRows' = tenantRows \/ expanded' = expanded
  PROVE  RequestsMade' /\ PanelInv'
<1> USE DEF TenantInv, TenantShapes
<1>1. CASE /\ Tenants!Listed(expanded)' /\ (expanded' # expanded \/ ~Tenants!Listed(expanded))
  <2>1. PICK q : q = Tenants!LoadUsers(expanded', mount')
    OBVIOUS
  <2>2. q.kind = "users" /\ q.of = expanded' /\ q.mount = mount'
    BY <2>1 DEF Tenants!LoadUsers
  <2>3. /\ mount' = mount + 1 /\ users' = {} /\ tenantCreated' = None
        /\ tenantPending' = rest \cup {q}
    BY <1>1, <2>1 DEF Tenants!ShowPanel, Tenants!Listed
  <2>4. expanded' \in Tenant \ spare /\ mount \in Nat
    BY <1>1 DEF TenantTypes, Tenants!Listed
  <2>5. RequestsMade'
    BY <2>2, <2>3, <2>4 DEF RequestsMade, OfMadeTenant, PanelRequest
  <2>6. \A p \in rest : p.kind \in PanelRequest => p.mount # mount' /\ p.of \in Tenant \ spare
    <3> SUFFICES ASSUME NEW p \in rest, p.kind \in PanelRequest
                 PROVE  p.mount # mount' /\ p.of \in Tenant \ spare
      OBVIOUS
    <3>1. p.of \in Tenant \ spare /\ p.mount \in 0..mount
      BY Zenon DEF OfMadeTenant
    <3> QED
      BY <2>3, <2>4, <3>1
  <2>7. PanelOfExpanded'
    BY <2>2, <2>3, <2>4, <2>6 DEF PanelOfExpanded, PanelRequest
  <2>8. MembersStored'
    BY <2>2, <2>3, <2>6 DEF MembersStored, PanelInv, PanelRequest
  <2>9. PanelStored'
    BY <2>3 DEF PanelStored
  <2>10. ~tenantCrossed' => \A p \in rest : ~(p.kind = "add" /\ p.of = expanded')
    BY <1>1, Zenon DEF Tenants!ShowPanel, Tenants!Listed
  <2>11. PanelComplete'
    BY <2>2, <2>3, <2>4, <2>6, <2>10 DEF PanelComplete, PanelRequest
  <2> QED
    BY <2>5, <2>7, <2>8, <2>9, <2>11 DEF PanelInv
<1>2. CASE ~(Tenants!Listed(expanded)' /\ (expanded' # expanded \/ ~Tenants!Listed(expanded)))
  <2>1. /\ tenantPending' = rest
        /\ UNCHANGED <<users, tenantCreated, mount, tenantCrossed>>
    BY <1>2 DEF Tenants!ShowPanel, Tenants!Listed, Tenants!panel
  <2>2. RequestsMade'
    BY <2>1 DEF RequestsMade, OfMadeTenant
  <2>3. MembersStored'
    BY <2>1 DEF MembersStored, PanelInv, PanelRequest, OfMadeTenant
  <2>4. CASE ~Tenants!Listed(expanded)'
    BY <2>2, <2>3, <2>4 DEF PanelInv, PanelOfExpanded, PanelStored, PanelComplete, Unfolded
  <2>5. CASE Tenants!Listed(expanded)'
    <3>1. expanded' = expanded /\ Tenants!Listed(expanded)
      BY <1>2, <2>5
    <3>2. expanded \in Tenant \ spare /\ tenantStored'[expanded] = tenantStored[expanded]
      BY <2>5, <3>1 DEF TenantTypes, Tenants!Listed
    <3>3. PanelOfExpanded'
      BY <2>1, <3>1 DEF PanelInv, PanelOfExpanded
    <3>4. PanelStored'
      BY <2>1, <3>1, <3>2 DEF PanelInv, PanelStored, Unfolded
    <3>5. PanelComplete'
      BY <2>1, <3>1, <3>2 DEF PanelInv, PanelComplete, Unfolded, PanelRequest
    <3> QED
      BY <2>3, <2>2, <3>3, <3>4, <3>5 DEF PanelInv
  <2> QED
    BY <2>4, <2>5
<1> QED
  BY <1>1, <1>2

\* The status requests of the panel's step are those that remain.
LEMMA PanelStatus ==
  ASSUME NEW rest, Tenants!ShowPanel(rest)
  PROVE  \A p : p.kind = "status" => (p \in tenantPending' <=> p \in rest)
<1>1. tenantPending' = rest \/ tenantPending' = rest \cup {Tenants!LoadUsers(expanded', mount')}
  BY DEF Tenants!ShowPanel
<1>2. Tenants!LoadUsers(expanded', mount').kind = "users"
  BY DEF Tenants!LoadUsers
<1> QED
  BY <1>1, <1>2

LEMMA TenantExpands ==
  ASSUME TenantInv, NEW t \in Tenant, Tenants!Expand(t) PROVE TenantInv'
<1>1. /\ Tenants!Listed(t) /\ expanded' = (IF expanded = t THEN None ELSE t)
      /\ Tenants!ShowPanel(tenantPending)
      /\ UNCHANGED <<tenantRows, tenantStored, spare, wanted, doubled, tenantFailed>>
  BY DEF Tenants!Expand
<1>2. mount' \in Nat
  BY <1>1, TenantMounts DEF TenantInv, TenantShapes
<1>3. TenantTypes' /\ SpareUnseen'
  BY <1>1, <1>2 DEF TenantInv, TenantShapes, TenantTypes, SpareUnseen
<1>4. Tenants!Listed(expanded)' => expanded' \notin spare
  BY <1>1 DEF Tenants!Listed, TenantInv, TenantShapes, SpareUnseen
<1>5. RequestsMade' /\ PanelInv'
  BY <1>1, <1>3, <1>4, TenantPanels DEF TenantInv, TenantShapes, RequestsMade
<1>6. \A r : r.kind = "status" => (r \in tenantPending' <=> r \in tenantPending)
  BY <1>1, PanelStatus
<1>7. StatusInv'
  BY <1>1, <1>6 DEF TenantInv, StatusInv, StatusSettled
<1> QED
  BY <1>3, <1>5, <1>7 DEF TenantInv, TenantShapes

LEMMA TenantRowsCome ==
  ASSUME TenantInv, NEW p \in tenantPending, p.kind = "rows", Tenants!DeliverRows(p),
         UNCHANGED <<wanted, doubled>>
  PROVE  TenantInv'
<1>1. /\ tenantRows' = p.rows /\ Tenants!ShowPanel(tenantPending \ {p})
      /\ UNCHANGED <<expanded, tenantStored, spare, wanted, doubled, tenantFailed>>
  BY DEF Tenants!DeliverRows
<1>2. mount' \in Nat
  BY <1>1, TenantMounts DEF TenantInv, TenantShapes
<1>3. OfMadeTenant(p)
  BY DEF TenantInv, TenantShapes, RequestsMade
<1>4. TenantTypes' /\ SpareUnseen'
  BY <1>1, <1>2, <1>3 DEF TenantInv, TenantShapes, TenantTypes, SpareUnseen, OfMadeTenant
<1>5. Tenants!Listed(expanded)' => expanded' \notin spare
  BY <1>1, <1>4 DEF Tenants!Listed, SpareUnseen
<1>6. RequestsMade' /\ PanelInv'
  <2>1. \A q \in tenantPending \ {p} : OfMadeTenant(q)
    BY DEF TenantInv, TenantShapes, RequestsMade
  <2> QED
    BY <1>1, <1>4, <1>5, <2>1, TenantPanels
<1>7. StatusInv'
  <2>1. \A r : r.kind = "status" => (r \in tenantPending' <=> r \in tenantPending)
    BY <1>1, PanelStatus
  <2> QED
    BY <1>1, <2>1 DEF TenantInv, StatusInv, StatusSettled
<1> QED
  BY <1>4, <1>6, <1>7 DEF TenantInv, TenantShapes

LEMMA TenantMade ==
  ASSUME TenantInv, NEW p \in tenantPending, p.kind = "create", Tenants!AnswerCreate(p),
         UNCHANGED <<wanted, doubled>>
  PROVE  TenantInv'
<1>1. PICK q : q = Tenants!LoadTenants
  OBVIOUS
<1>2. q.kind = "tenants"
  BY <1>1 DEF Tenants!LoadTenants
<1>3. OfMadeTenant(p) /\ OfMadeTenant(q)
  BY <1>2 DEF TenantInv, TenantShapes, RequestsMade, OfMadeTenant, PanelRequest
<1>4. UNCHANGED tenantRows
  BY DEF Tenants!AnswerCreate
<1>5. CASE \E t \in spare, admins \in {{}} \cup {{u} : u \in User} :
             /\ tenantStored' = [tenantStored EXCEPT
                   ![t] = [name |-> p.name, status |-> "active", users |-> admins]]
             /\ spare' = spare \ {t} /\ expanded' = t /\ UNCHANGED tenantFailed
             /\ Tenants!ShowPanel((tenantPending \ {p}) \cup {q})
  <2>1. PICK t \in spare, admins \in {{}} \cup {{u} : u \in User} :
             /\ tenantStored' = [tenantStored EXCEPT
                   ![t] = [name |-> p.name, status |-> "active", users |-> admins]]
             /\ spare' = spare \ {t} /\ expanded' = t /\ UNCHANGED tenantFailed
             /\ Tenants!ShowPanel((tenantPending \ {p}) \cup {q})
    BY <1>5
  <2>2. mount' \in Nat
    BY <2>1, TenantMounts DEF TenantInv, TenantShapes
  <2>3. TenantTypes' /\ SpareUnseen'
    BY <1>4, <2>1, <2>2 DEF TenantInv, TenantShapes, TenantTypes, SpareUnseen
  <2>4. ~Tenants!Listed(expanded)'
    BY <1>4, <2>1 DEF Tenants!Listed, TenantInv, TenantShapes, SpareUnseen
  <2>5. \A r \in (tenantPending \ {p}) \cup {q} : OfMadeTenant(r)
    BY <1>3 DEF TenantInv, TenantShapes, RequestsMade
  <2>6. \A u \in Tenant \ spare : tenantStored'[u] = tenantStored[u]
    BY <2>1 DEF TenantInv, TenantShapes, TenantTypes
  <2>7. RequestsMade' /\ PanelInv'
    BY <1>2, <1>4, <2>1, <2>3, <2>4, <2>5, <2>6, TenantPanels DEF PanelRequest
  <2>8. StatusInv'
    <3>1. \A r : r.kind = "status" => (r \in tenantPending' <=> r \in tenantPending)
      <4>1. \A r : r.kind = "status" =>
              (r \in tenantPending' <=> r \in (tenantPending \ {p}) \cup {q})
        BY <2>1, PanelStatus
      <4> QED
        BY <1>2, <4>1
    <3>2. wanted[t] = None
      BY DEF TenantInv, TenantShapes, SpareUnseen
    <3> QED
      BY <2>1, <3>1, <3>2 DEF TenantInv, TenantShapes, TenantTypes, StatusInv, StatusSettled
  <2> QED
    BY <2>3, <2>7, <2>8 DEF TenantInv, TenantShapes
<1>6. CASE /\ expanded' = (IF p.existing = None THEN expanded ELSE p.existing)
           /\ Tenants!ShowPanel(tenantPending \ {p}) /\ UNCHANGED <<tenantStored, spare>>
           /\ UNCHANGED tenantFailed \/ tenantFailed' = tenantFailed + 1
  <2>1. mount' \in Nat /\ tenantFailed' \in Nat /\ (tenantFailed' = 0 => tenantFailed = 0)
    BY <1>6, TenantMounts DEF TenantInv, TenantShapes, TenantTypes
  <2>2. TenantTypes' /\ SpareUnseen'
    BY <1>3, <1>4, <1>6, <2>1 DEF TenantInv, TenantShapes, TenantTypes, SpareUnseen, OfMadeTenant
  <2>3. Tenants!Listed(expanded)' => expanded' \notin spare
    BY <1>6, <2>2 DEF Tenants!Listed, SpareUnseen
  <2>4. RequestsMade' /\ PanelInv'
    <3>1. \A r \in tenantPending \ {p} : OfMadeTenant(r)
      BY DEF TenantInv, TenantShapes, RequestsMade
    <3> QED
      BY <1>4, <1>6, <2>1, <2>2, <2>3, <3>1, TenantPanels
  <2>5. StatusInv'
    <3>1. \A r : r.kind = "status" => (r \in tenantPending' <=> r \in tenantPending)
      BY <1>6, PanelStatus
    <3> QED
      BY <1>6, <2>1, <3>1 DEF TenantInv, StatusInv, StatusSettled
  <2> QED
    BY <2>2, <2>4, <2>5 DEF TenantInv, TenantShapes
<1> QED
  BY <1>1, <1>5, <1>6 DEF Tenants!AnswerCreate, Tenants!Well, Tenants!Fault

\* A request that is neither a panel's nor a status leaves the panel and the
\* statuses as they are.
LEMMA TenantAsks ==
  ASSUME TenantInv, NEW p, OfMadeTenant(p), p.kind \notin PanelRequest, p.kind # "status",
         tenantPending' = tenantPending \cup {p},
         UNCHANGED <<tenantStored, spare, tenantRows, expanded, users, tenantCreated, mount,
                     tenantCrossed, wanted, doubled, tenantFailed>>
  PROVE  TenantInv'
<1>1. TenantTypes' /\ SpareUnseen' /\ RequestsMade'
  BY DEF TenantInv, TenantShapes, TenantTypes, SpareUnseen, RequestsMade, OfMadeTenant
<1>2. PanelInv'
  BY DEF TenantInv, PanelInv, PanelOfExpanded, MembersStored, PanelStored, PanelComplete,
     PanelRequest, Unfolded, Tenants!Listed
<1>3. StatusInv'
  BY DEF TenantInv, StatusInv, StatusSettled
<1> QED
  BY <1>1, <1>2, <1>3 DEF TenantInv, TenantShapes

LEMMA TenantCreated ==
  ASSUME TenantInv, NEW n \in Name, Tenants!CreateTenant(n) PROVE TenantInv'
<1>1. PICK t \in Tenant \cup {None} :
        /\ t # None => Tenants!Listed(t)
        /\ Tenants!Request([kind |-> "create", name |-> n, existing |-> t, at |-> tenantClicks])
  BY DEF Tenants!CreateTenant
<1>2. PICK p : p = [kind |-> "create", name |-> n, existing |-> t, at |-> tenantClicks]
  OBVIOUS
<1>3. t # None => t \in Tenant \ spare
  BY <1>1 DEF Tenants!Listed, TenantInv, TenantShapes, SpareUnseen
<1>4. OfMadeTenant(p) /\ p.kind = "create"
  BY <1>2, <1>3 DEF OfMadeTenant, PanelRequest
<1>5. /\ tenantPending' = tenantPending \cup {p}
      /\ UNCHANGED <<tenantStored, spare, tenantRows, expanded, users, tenantCreated, mount,
                     tenantCrossed, wanted, doubled, tenantFailed>>
  BY <1>1, <1>2 DEF Tenants!CreateTenant, Tenants!Request, Tenants!panel
<1> QED
  BY <1>4, <1>5, TenantAsks DEF PanelRequest

LEMMA TenantRemoved ==
  ASSUME TenantInv, NEW t \in Tenant, Tenants!RemoveTenant(t) PROVE TenantInv'
<1>1. PICK p : p = [kind |-> "remove", of |-> t]
  OBVIOUS
<1>2. t \in Tenant \ spare
  BY DEF Tenants!RemoveTenant, Tenants!Listed, TenantInv, TenantShapes, SpareUnseen
<1>3. OfMadeTenant(p) /\ p.kind = "remove"
  BY <1>1, <1>2 DEF OfMadeTenant, PanelRequest
<1>4. /\ tenantPending' = tenantPending \cup {p}
      /\ UNCHANGED <<tenantStored, spare, tenantRows, expanded, users, tenantCreated, mount,
                     tenantCrossed, wanted, doubled, tenantFailed>>
  BY <1>1 DEF Tenants!RemoveTenant, Tenants!Request, Tenants!panel
<1> QED
  BY <1>3, <1>4, TenantAsks DEF PanelRequest

LEMMA TenantToggled ==
  ASSUME TenantInv, NEW t \in Tenant, Tenants!ToggleSuspend(t) PROVE TenantInv'
<1>1. PICK next : next = (IF tenantRows[t].status = "suspended" THEN "active" ELSE "suspended")
  OBVIOUS
<1>2. PICK p : p = [kind |-> "status", of |-> t, to |-> next, at |-> tenantClicks]
  OBVIOUS
<1>3. /\ p.kind = "status" /\ p.of = t /\ p.to = next
  BY <1>2
<1>4. t \in Tenant \ spare
  BY DEF Tenants!ToggleSuspend, Tenants!Listed, TenantInv, TenantShapes, SpareUnseen
<1>5. /\ tenantPending' = tenantPending \cup {p} /\ wanted' = [wanted EXCEPT ![t] = next]
      /\ UNCHANGED <<tenantStored, spare, tenantRows, expanded, users, tenantCreated, mount,
                     tenantCrossed, tenantFailed>>
      /\ doubled' = IF \E q \in tenantPending : q.kind = "status" /\ q.of = t
                    THEN doubled \cup {t} ELSE doubled
  BY <1>1, <1>2 DEF Tenants!ToggleSuspend, Tenants!Request, Tenants!panel
<1>6. TenantTypes' /\ SpareUnseen'
  BY <1>4, <1>5 DEF TenantInv, TenantShapes, TenantTypes, SpareUnseen
<1>7. RequestsMade'
  BY <1>3, <1>4, <1>5 DEF TenantInv, TenantShapes, RequestsMade, OfMadeTenant, PanelRequest
<1>8. PanelInv'
  BY <1>3, <1>5 DEF TenantInv, PanelInv, PanelOfExpanded, MembersStored, PanelStored,
     PanelComplete, PanelRequest, Unfolded, Tenants!Listed
<1>9. StatusInv'
  <2>1. \A u \in Tenant : u # t => wanted'[u] = wanted[u]
    BY <1>5 DEF TenantInv, TenantShapes, TenantTypes
  <2>2. wanted'[t] = next
    BY <1>5 DEF TenantInv, TenantShapes, TenantTypes
  <2>3. t \notin doubled' => \A q \in tenantPending : ~(q.kind = "status" /\ q.of = t)
    BY <1>5
  <2>4. doubled \subseteq doubled'
    BY <1>5
  <2> QED
    BY <1>3, <1>5, <2>1, <2>2, <2>3, <2>4 DEF TenantInv, StatusInv, StatusSettled
<1> QED
  BY <1>6, <1>7, <1>8, <1>9 DEF TenantInv, TenantShapes

LEMMA TenantAdds ==
  ASSUME TenantInv, NEW u \in User, Tenants!AddMember(u) PROVE TenantInv'
<1>1. PICK p : p = [kind |-> "add", of |-> expanded, user |-> u, mount |-> mount]
  OBVIOUS
<1>2. p.kind = "add" /\ p.of = expanded /\ p.mount = mount
  BY <1>1
<1>3. expanded \in Tenant \ spare /\ mount \in Nat
  BY DEF Tenants!AddMember, Tenants!Listed, TenantInv, TenantShapes, SpareUnseen, TenantTypes
<1>4. /\ tenantPending' = tenantPending \cup {p} /\ tenantCreated' = None
      /\ UNCHANGED <<tenantStored, spare, tenantRows, expanded, users, mount,
                     tenantCrossed, wanted, doubled, tenantFailed>>
  BY <1>1 DEF Tenants!AddMember, Tenants!Request
<1>5. TenantTypes' /\ SpareUnseen'
  BY <1>4 DEF TenantInv, TenantShapes, TenantTypes, SpareUnseen
<1>6. RequestsMade'
  BY <1>2, <1>3, <1>4 DEF TenantInv, TenantShapes, RequestsMade, OfMadeTenant, PanelRequest
<1>7. PanelInv'
  BY <1>2, <1>4 DEF TenantInv, PanelInv, PanelOfExpanded, MembersStored, PanelStored,
     PanelComplete, PanelRequest, Unfolded, Tenants!Listed
<1>8. StatusInv'
  BY <1>2, <1>4 DEF TenantInv, StatusInv, StatusSettled
<1> QED
  BY <1>5, <1>6, <1>7, <1>8 DEF TenantInv, TenantShapes

LEMMA TenantServed ==
  ASSUME TenantInv, NEW p \in tenantPending, Tenants!Serve(p) PROVE TenantInv'
<1>1. PICK ok \in BOOLEAN : \E q :
        /\ IF ok THEN UNCHANGED tenantFailed ELSE tenantFailed' = tenantFailed + 1
        /\ tenantPending' = (tenantPending \ {p}) \cup {q}
        /\ p.kind = "tenants" => q = [kind |-> "rows", rows |-> [t \in Tenant |->
              IF ok /\ tenantStored[t] # None
              THEN [name |-> tenantStored[t].name, status |-> tenantStored[t].status] ELSE None]]
        /\ p.kind = "users" => q = [kind |-> "members", of |-> p.of, mount |-> p.mount,
              users |-> IF ok /\ tenantStored[p.of] # None THEN tenantStored[p.of].users ELSE {}]
  BY DEF Tenants!Serve, Tenants!Well, Tenants!Fault
<1>2. PICK q :
        /\ IF ok THEN UNCHANGED tenantFailed ELSE tenantFailed' = tenantFailed + 1
        /\ tenantPending' = (tenantPending \ {p}) \cup {q}
        /\ p.kind = "tenants" => q = [kind |-> "rows", rows |-> [t \in Tenant |->
              IF ok /\ tenantStored[t] # None
              THEN [name |-> tenantStored[t].name, status |-> tenantStored[t].status] ELSE None]]
        /\ p.kind = "users" => q = [kind |-> "members", of |-> p.of, mount |-> p.mount,
              users |-> IF ok /\ tenantStored[p.of] # None THEN tenantStored[p.of].users ELSE {}]
  BY <1>1
<1>3. /\ p.kind \in {"tenants", "users"}
      /\ UNCHANGED <<tenantStored, spare, tenantRows, expanded, users, tenantCreated, mount,
                     tenantCrossed, wanted, doubled>>
  BY DEF Tenants!Serve, Tenants!panel
<1>4. OfMadeTenant(p)
  BY DEF TenantInv, TenantShapes, RequestsMade
<1>5. tenantFailed' \in Nat /\ (tenantFailed' = 0 => tenantFailed = 0 /\ ok)
  BY <1>2 DEF TenantInv, TenantShapes, TenantTypes
<1>6. TenantTypes' /\ SpareUnseen'
  BY <1>3, <1>5 DEF TenantInv, TenantShapes, TenantTypes, SpareUnseen
<1>7. CASE p.kind = "tenants"
  <2>1. /\ q.kind = "rows" /\ q.rows = [t \in Tenant |-> q.rows[t]]
        /\ \A t \in Tenant : tenantStored[t] = None => q.rows[t] = None
    BY <1>2, <1>7
  <2>2. OfMadeTenant(q)
    BY <2>1 DEF OfMadeTenant, PanelRequest, TenantInv, TenantShapes, SpareUnseen, TenantTypes
  <2>3. RequestsMade'
    BY <1>2, <1>3, <2>2 DEF TenantInv, TenantShapes, RequestsMade, OfMadeTenant
  <2>4. PanelInv'
    BY <1>2, <1>3, <1>5, <1>7, <2>1 DEF TenantInv, PanelInv, PanelOfExpanded, MembersStored,
       PanelStored, PanelComplete, PanelRequest, Unfolded, Tenants!Listed
  <2>5. StatusInv'
    BY <1>2, <1>3, <1>5, <1>7, <2>1 DEF TenantInv, StatusInv, StatusSettled
  <2> QED
    BY <1>6, <2>3, <2>4, <2>5 DEF TenantInv, TenantShapes
<1>8. CASE p.kind = "users"
  <2>1. /\ q.kind = "members" /\ q.of = p.of /\ q.mount = p.mount
        /\ q.users = IF ok /\ tenantStored[p.of] # None THEN tenantStored[p.of].users ELSE {}
    BY <1>2, <1>8
  <2>2. OfMadeTenant(q)
    BY <1>4, <1>8, <2>1 DEF OfMadeTenant, PanelRequest
  <2>3. RequestsMade'
    BY <1>2, <1>3, <2>2 DEF TenantInv, TenantShapes, RequestsMade, OfMadeTenant
  <2>4. PanelOfExpanded' /\ MembersStored' /\ PanelStored'
    BY <1>2, <1>3, <1>8, <2>1 DEF TenantInv, PanelInv, PanelOfExpanded, MembersStored,
       PanelStored, PanelRequest, Unfolded, Tenants!Listed
  <2>5. PanelComplete'
    BY <1>2, <1>3, <1>5, <1>8, <2>1 DEF TenantInv, PanelInv, PanelOfExpanded, PanelComplete,
       PanelRequest, Unfolded, Tenants!Listed
  <2>6. StatusInv'
    BY <1>2, <1>3, <1>5, <1>8, <2>1 DEF TenantInv, StatusInv, StatusSettled
  <2> QED
    BY <1>6, <2>3, <2>4, <2>5, <2>6 DEF TenantInv, TenantShapes, PanelInv
<1> QED
  BY <1>3, <1>7, <1>8

LEMMA TenantMembersCome ==
  ASSUME TenantInv, NEW p \in tenantPending, p.kind = "members", Tenants!DeliverMembers(p),
         UNCHANGED <<wanted, doubled>>
  PROVE  TenantInv'
<1>1. /\ users' = (IF p.mount = mount THEN p.users ELSE users)
      /\ tenantPending' = tenantPending \ {p}
      /\ UNCHANGED <<tenantStored, spare, tenantRows, expanded, tenantCreated, mount,
                     tenantCrossed, tenantFailed>>
  BY DEF Tenants!DeliverMembers
<1>2. TenantTypes' /\ SpareUnseen'
  BY <1>1 DEF TenantInv, TenantShapes, TenantTypes, SpareUnseen
<1>3. RequestsMade'
  BY <1>1 DEF TenantInv, TenantShapes, RequestsMade, OfMadeTenant
<1>4. PanelOfExpanded' /\ MembersStored'
  BY <1>1 DEF TenantInv, PanelInv, PanelOfExpanded, MembersStored, Tenants!Listed
<1>5. PanelStored'
  BY <1>1 DEF TenantInv, PanelInv, PanelOfExpanded, MembersStored, PanelStored, PanelRequest,
     Unfolded, Tenants!Listed
<1>6. PanelComplete'
  BY <1>1 DEF TenantInv, PanelInv, PanelComplete, Unfolded, Tenants!Listed
<1>7. StatusInv'
  BY <1>1 DEF TenantInv, StatusInv, StatusSettled
<1> QED
  BY <1>2, <1>3, <1>4, <1>5, <1>6, <1>7 DEF TenantInv, TenantShapes, PanelInv

LEMMA TenantAnswered ==
  ASSUME TenantInv, NEW p \in tenantPending, p.kind \in {"status", "remove"},
         Tenants!AnswerTenant(p), UNCHANGED <<wanted, doubled>>
  PROVE  TenantInv'
<1>1. /\ UNCHANGED <<spare, tenantRows, expanded, users, tenantCreated, mount, tenantCrossed>>
      /\ p.of \in Tenant \ spare
  BY DEF Tenants!AnswerTenant, Tenants!panel, TenantInv, TenantShapes, RequestsMade, OfMadeTenant
<1>2. CASE /\ tenantFailed' = tenantFailed + 1 /\ tenantPending' = tenantPending \ {p}
           /\ UNCHANGED tenantStored
  <2>1. tenantFailed' \in Nat /\ tenantFailed' # 0
    BY <1>2 DEF TenantInv, TenantShapes, TenantTypes
  <2>2. TenantTypes' /\ SpareUnseen' /\ RequestsMade'
    BY <1>1, <1>2, <2>1 DEF TenantInv, TenantShapes, TenantTypes, SpareUnseen, RequestsMade,
       OfMadeTenant
  <2>3. PanelInv' /\ StatusInv'
    BY <1>1, <1>2, <2>1 DEF TenantInv, PanelInv, PanelOfExpanded, MembersStored, PanelStored,
       PanelComplete, StatusInv, Unfolded, Tenants!Listed
  <2> QED
    BY <2>2, <2>3 DEF TenantInv, TenantShapes
<1>3. CASE /\ tenantStored' = [tenantStored EXCEPT
                 ![p.of] = IF @ = None \/ p.kind = "remove" THEN None ELSE [@ EXCEPT !.status = p.to]]
           /\ UNCHANGED tenantFailed
           /\ tenantPending' = (tenantPending \ {p}) \cup {Tenants!LoadTenants}
  <2>1. PICK q : q = Tenants!LoadTenants
    OBVIOUS
  <2>2. q.kind = "tenants" /\ tenantPending' = (tenantPending \ {p}) \cup {q}
    BY <1>3, <2>1 DEF Tenants!LoadTenants
  <2>3. \A t \in Tenant : t # p.of => tenantStored'[t] = tenantStored[t]
    BY <1>3 DEF TenantInv, TenantShapes, TenantTypes
  <2>4. \/ tenantStored'[p.of] = None
        \/ /\ tenantStored[p.of] # None /\ p.kind = "status"
           /\ tenantStored'[p.of] = [tenantStored[p.of] EXCEPT !.status = p.to]
    BY <1>1, <1>3 DEF TenantInv, TenantShapes, TenantTypes
  <2>5. TenantTypes'
    BY <1>1, <1>3, <2>3, <2>4 DEF TenantInv, TenantShapes, TenantTypes
  <2>6. SpareUnseen'
    BY <1>1, <1>3, <2>3 DEF TenantInv, TenantShapes, TenantTypes, SpareUnseen
  <2>7. RequestsMade'
    BY <1>1, <2>2 DEF TenantInv, TenantShapes, RequestsMade, OfMadeTenant, PanelRequest
  <2>8. \A t \in Tenant : tenantStored'[t] # None =>
           tenantStored[t] # None /\ tenantStored'[t].users = tenantStored[t].users
    BY <1>1, <2>3, <2>4 DEF TenantInv, TenantShapes, TenantTypes
  <2>9. Tenants!Listed(expanded) => expanded \in Tenant
    BY DEF TenantInv, TenantShapes, TenantTypes, Tenants!Listed
  <2>10. \A r \in tenantPending : r.kind \in PanelRequest => r.of \in Tenant
    BY DEF TenantInv, TenantShapes, RequestsMade, OfMadeTenant
  <2>11. PanelOfExpanded' /\ MembersStored' /\ PanelStored'
    BY <1>1, <2>2, <2>8, <2>9, <2>10 DEF TenantInv, PanelInv, PanelOfExpanded, MembersStored,
       PanelStored, PanelRequest, Unfolded, Tenants!Listed
  <2>12. PanelComplete'
    BY <1>1, <1>3, <2>2, <2>8, <2>9 DEF TenantInv, PanelInv, PanelComplete, Unfolded, Tenants!Listed
  <2>13. StatusInv'
    <3> SUFFICES ASSUME tenantFailed' = 0, NEW t \in Tenant \ doubled' PROVE StatusSettled(t)'
      BY DEF StatusInv
    <3>1. StatusSettled(t)
      BY <1>3 DEF TenantInv, StatusInv
    <3>2. \A r : r.kind = "status" =>
             (r \in tenantPending' <=> r \in tenantPending /\ r # p)
      BY <2>2
    <3>3. CASE t # p.of \/ p.kind # "status"
      BY <2>3, <2>4, <3>1, <3>2, <3>3 DEF StatusSettled
    <3>4. CASE t = p.of /\ p.kind = "status"
      <4>1. p.to = wanted[t]
        BY <3>1, <3>4 DEF StatusSettled
      <4>2. tenantStored'[t] = None \/ tenantStored'[t].status = p.to
        BY <1>1, <2>4, <3>4 DEF TenantInv, TenantShapes, TenantTypes
      <4> QED
        BY <3>1, <3>2, <4>1, <4>2 DEF StatusSettled
    <3> QED
      BY <3>3, <3>4
  <2> QED
    BY <2>5, <2>6, <2>7, <2>11, <2>12, <2>13 DEF TenantInv, TenantShapes, PanelInv
<1> QED
  BY <1>2, <1>3 DEF Tenants!AnswerTenant, Tenants!Well, Tenants!Fault

LEMMA TenantAdded ==
  ASSUME TenantInv, NEW p \in tenantPending, p.kind = "add", Tenants!AnswerAdd(p),
         UNCHANGED <<wanted, doubled>>
  PROVE  TenantInv'
<1>1. /\ UNCHANGED <<spare, tenantRows, expanded, users, mount>>
      /\ p.of \in Tenant \ spare /\ p.mount \in 0..mount
  BY DEF Tenants!AnswerAdd, TenantInv, TenantShapes, RequestsMade, OfMadeTenant, PanelRequest
<1>2. CASE /\ UNCHANGED <<tenantStored, tenantCreated, tenantCrossed>>
           /\ UNCHANGED tenantFailed \/ tenantFailed' = tenantFailed + 1
           /\ tenantPending' = tenantPending \ {p}
  <2>1. tenantFailed' \in Nat /\ (tenantFailed' = 0 => tenantFailed = 0)
    BY <1>2 DEF TenantInv, TenantShapes, TenantTypes
  <2>2. TenantTypes' /\ SpareUnseen' /\ RequestsMade'
    BY <1>1, <1>2, <2>1 DEF TenantInv, TenantShapes, TenantTypes, SpareUnseen, RequestsMade,
       OfMadeTenant
  <2>3. PanelInv'
    BY <1>1, <1>2, <2>1 DEF TenantInv, PanelInv, PanelOfExpanded, MembersStored, PanelStored,
       PanelComplete, Unfolded, Tenants!Listed
  <2>4. StatusInv'
    BY <1>1, <1>2, <2>1 DEF TenantInv, StatusInv, StatusSettled
  <2> QED
    BY <2>2, <2>3, <2>4 DEF TenantInv, TenantShapes
<1>3. CASE /\ tenantStored[p.of] # None /\ UNCHANGED tenantFailed
           /\ tenantStored' = [tenantStored EXCEPT ![p.of].users = @ \cup {p.user}]
           /\ tenantCreated' = IF p.mount = mount THEN p.user ELSE tenantCreated
           /\ ~tenantCrossed' => /\ ~tenantCrossed
                                 /\ \A q \in tenantPending : q.kind \in {"users", "members"} =>
                                       q.mount # mount
           /\ tenantPending' = (tenantPending \ {p}) \cup {Tenants!LoadUsers(p.of, p.mount)}
  <2>1. PICK q : q = Tenants!LoadUsers(p.of, p.mount)
    OBVIOUS
  <2>2. /\ q.kind = "users" /\ q.of = p.of /\ q.mount = p.mount
        /\ tenantPending' = (tenantPending \ {p}) \cup {q}
    BY <1>3, <2>1 DEF Tenants!LoadUsers
  <2>3. \A t \in Tenant : t # p.of => tenantStored'[t] = tenantStored[t]
    BY <1>3 DEF TenantInv, TenantShapes, TenantTypes
  <2>4. /\ tenantStored'[p.of] = [tenantStored[p.of] EXCEPT !.users = @ \cup {p.user}]
        /\ tenantStored' = [t \in Tenant |-> tenantStored'[t]]
    BY <1>1, <1>3 DEF TenantInv, TenantShapes, TenantTypes
  <2>5. LET r == tenantStored[p.of]
        IN  r = [name |-> r.name, status |-> r.status, users |-> r.users]
    BY <1>1, <1>3 DEF TenantInv, TenantShapes, TenantTypes
  <2>6. LET r == tenantStored'[p.of]
        IN  /\ r = [name |-> r.name, status |-> r.status, users |-> r.users]
            /\ r.users = tenantStored[p.of].users \cup {p.user}
            /\ r.status = tenantStored[p.of].status
    BY <2>4, <2>5
  <2>7. TenantTypes'
    BY <1>1, <1>3, <2>3, <2>4, <2>6 DEF TenantInv, TenantShapes, TenantTypes
  <2>8. SpareUnseen'
    BY <1>1, <2>3 DEF TenantInv, TenantShapes, TenantTypes, SpareUnseen
  <2>9. RequestsMade'
    BY <1>1, <2>2 DEF TenantInv, TenantShapes, RequestsMade, OfMadeTenant, PanelRequest
  <2>10. Tenants!Listed(expanded) => expanded \in Tenant
    BY DEF TenantInv, TenantShapes, TenantTypes, Tenants!Listed
  <2>11. \A r \in tenantPending : r.kind \in PanelRequest => r.of \in Tenant
    BY DEF TenantInv, TenantShapes, RequestsMade, OfMadeTenant
  <2>12. PanelOfExpanded'
    BY <1>1, <2>2 DEF TenantInv, PanelInv, PanelOfExpanded, PanelRequest, Tenants!Listed
  <2>13. MembersStored'
    BY <1>3, <2>2, <2>3, <2>6, <2>11 DEF TenantInv, PanelInv, MembersStored, PanelRequest
  <2>14. Tenants!Listed(expanded) /\ p.mount = mount => p.of = expanded
    BY DEF TenantInv, PanelInv, PanelOfExpanded, PanelRequest
  <2>15. PanelStored'
    BY <1>1, <1>3, <2>3, <2>6, <2>10, <2>14 DEF TenantInv, PanelInv, PanelStored, Unfolded,
       Tenants!Listed
  <2>16. PanelComplete'
    <3> SUFFICES ASSUME Unfolded', tenantFailed' = 0, ~tenantCrossed' PROVE PanelComplete'
      BY DEF PanelComplete
    <3>1. /\ Tenants!Listed(expanded) /\ expanded \in Tenant /\ ~tenantCrossed
          /\ tenantFailed = 0
      BY <1>1, <1>3, <2>10 DEF Unfolded, Tenants!Listed
    <3>2. CASE p.of # expanded
      BY <1>1, <1>3, <2>2, <2>3, <2>14, <3>1, <3>2 DEF TenantInv, PanelInv, PanelComplete,
         Unfolded
    <3>3. CASE p.of = expanded
      <4>1. Unfolded /\ p.mount = mount
        BY <1>3, <3>1, <3>3 DEF TenantInv, PanelInv, PanelComplete, Unfolded
      <4>2. \A r \in tenantPending : r.kind \in {"users", "members"} => r.mount # mount
        BY <1>3
      <4> QED
        BY <1>1, <2>2, <3>1, <4>1, <4>2 DEF TenantInv, PanelInv, PanelComplete
    <3> QED
      BY <3>2, <3>3
  <2>17. StatusInv'
    <3> SUFFICES ASSUME tenantFailed' = 0, NEW t \in Tenant \ doubled' PROVE StatusSettled(t)'
      BY DEF StatusInv
    <3>1. StatusSettled(t)
      BY <1>3 DEF TenantInv, StatusInv
    <3>2. \A r : r.kind = "status" => (r \in tenantPending' <=> r \in tenantPending)
      BY <2>2
    <3>3. tenantStored[t] # None => tenantStored'[t].status = tenantStored[t].status
      BY <2>3, <2>6
    <3>4. tenantStored[t] = None => tenantStored'[t] = None
      BY <1>3, <2>3
    <3> QED
      BY <3>1, <3>2, <3>3, <3>4 DEF StatusSettled
  <2> QED
    BY <2>7, <2>8, <2>9, <2>12, <2>13, <2>15, <2>16, <2>17 DEF TenantInv, TenantShapes, PanelInv
<1> QED
  <2>1. tenantCrossed' = (tenantCrossed \/ \E q \in tenantPending :
                              q.kind \in {"users", "members"} /\ q.mount = mount) =>
          (~tenantCrossed' => /\ ~tenantCrossed
                              /\ \A q \in tenantPending : q.kind \in {"users", "members"} =>
                                    q.mount # mount)
    BY Zenon
  <2>2. \/ /\ tenantStored[p.of] # None /\ UNCHANGED tenantFailed
           /\ tenantStored' = [tenantStored EXCEPT ![p.of].users = @ \cup {p.user}]
           /\ tenantCreated' = IF p.mount = mount THEN p.user ELSE tenantCreated
           /\ tenantCrossed' = (tenantCrossed \/ \E q \in tenantPending :
                              q.kind \in {"users", "members"} /\ q.mount = mount)
           /\ tenantPending' = (tenantPending \ {p}) \cup {Tenants!LoadUsers(p.of, p.mount)}
        \/ /\ UNCHANGED <<tenantStored, tenantCreated, tenantCrossed>>
           /\ UNCHANGED tenantFailed \/ tenantFailed' = tenantFailed + 1
           /\ tenantPending' = tenantPending \ {p}
    BY Zenon DEF Tenants!AnswerAdd, Tenants!Well, Tenants!Fault
  <2> QED
    BY <1>2, <1>3, <2>1, <2>2, Zenon

LEMMA TenantNextInv == ASSUME TenantInv, [Tenants!TenantsNext]_tenantPart PROVE TenantInv'
<1>1. CASE UNCHANGED tenantPart
  BY <1>1 DEF tenantPart, TenantInv, TenantShapes, TenantTypes, SpareUnseen, RequestsMade,
     OfMadeTenant, PanelInv, PanelOfExpanded, MembersStored, PanelStored, PanelComplete,
     StatusInv, StatusSettled, Unfolded, Tenants!Listed
<1>2. ASSUME NEW p \in tenantPending, Tenants!Answer(p) PROVE TenantInv'
  BY <1>2, TenantRowsCome, TenantMembersCome, TenantMade, TenantAnswered, TenantAdded
     DEF Tenants!Answer
<1> QED
  BY <1>1, <1>2, TenantExpands, TenantToggled, TenantRemoved, TenantCreated, TenantAdds,
     TenantServed DEF Tenants!TenantsNext

LEMMA TenantsAreRight == TenantInv => Tenants!TenantsAsShown
<1> SUFFICES ASSUME TenantInv PROVE Tenants!TenantsAsShown
  OBVIOUS
<1>1. tenantFailed = 0 \/ tenantFailed > 0
  BY DEF TenantInv, TenantShapes, TenantTypes
<1>2. Unfolded => /\ users \subseteq tenantStored[expanded].users
                  /\ tenantCreated # None => tenantCreated \in tenantStored[expanded].users
  BY DEF TenantInv, PanelInv, PanelStored
<1>3. Unfolded /\ tenantPending = {} =>
         tenantFailed > 0 \/ tenantCrossed \/ users = tenantStored[expanded].users
  BY <1>1 DEF TenantInv, PanelInv, PanelComplete
<1>4. tenantPending = {} => \A t \in Tenant :
          \/ tenantFailed > 0 \/ t \in doubled \/ wanted[t] = None \/ tenantStored[t] = None
          \/ tenantStored[t].status = wanted[t]
  BY <1>1 DEF TenantInv, StatusInv, StatusSettled
<1> QED
  BY <1>2, <1>3, <1>4, Zenon DEF Tenants!TenantsAsShown, Unfolded

-----------------------------------------------------------------------------
(* The bill (BillingPage) *)

\* The plan selected is the one clicked; without a click it is the first, or the
\* one the subscription had when it came, which comes once.
SelectionIsClicked ==
    /\ clicked # None => billSelected = clicked
    /\ clicked = None => billSelected \in {None, First} \/ (sub # None /\ billSelected = sub.plan)
    /\ "subscription" \in billPending => sub = None

KnowsSubscription == sub = None \/ sub = subscribed \/ changes > 0

Checkout(b) ==
    /\ b.plan = (IF b.clicked = None THEN First ELSE b.clicked)
    /\ b.chosen \in {None, b.interval}
    /\ b.plan = b.had => ~b.knew \/ b.changed

BillInv ==
    /\ plans \subseteq Plan /\ changes \in Nat
    /\ SelectionIsClicked /\ billChosen \in {None, billInterval} /\ KnowsSubscription
    /\ \A b \in bought : Checkout(b)

LEMMA BillInitInv == Bill!BillingInit => BillInv
BY DEF Bill!BillingInit, BillInv, SelectionIsClicked, KnowsSubscription

LEMMA BillNextInv == ASSUME BillInv, [Bill!BillingNext]_billPart PROVE BillInv'
<1> USE DEF BillInv
<1>1. CASE UNCHANGED billPart
  BY <1>1 DEF billPart, SelectionIsClicked, KnowsSubscription
<1>2. CASE Bill!AnswerSubscription
  <2>1. /\ \/ /\ sub' = subscribed /\ billInterval' = subscribed.interval /\ billChosen' = None
           \/ UNCHANGED <<sub, billInterval, billChosen>>
        /\ billPending' = billPending \ {"subscription"} /\ sub = None
        /\ UNCHANGED <<plans, subscribed, clicked, bought, changes>>
        /\ billSelected' = IF billSelected # None \/ plans' = {} THEN billSelected
                           ELSE IF sub' # None /\ sub'.plan \in plans' THEN sub'.plan ELSE First
    BY <1>2 DEF Bill!AnswerSubscription, Bill!Preselect, SelectionIsClicked
  <2> QED
    BY <2>1 DEF SelectionIsClicked, KnowsSubscription
<1>3. CASE Bill!AnswerPlans
  <2>1. /\ plans' \in {Plan, {}} /\ UNCHANGED sub /\ billPending' = billPending \ {"plans"}
        /\ UNCHANGED <<subscribed, billInterval, billChosen, clicked, bought, changes>>
        /\ billSelected' = IF billSelected # None \/ plans' = {} THEN billSelected
                           ELSE IF sub' # None /\ sub'.plan \in plans' THEN sub'.plan ELSE First
    BY <1>3 DEF Bill!AnswerPlans, Bill!Preselect
  <2> QED
    BY <2>1 DEF SelectionIsClicked, KnowsSubscription
<1>4. ASSUME NEW i \in Bill!Interval, Bill!ChooseInterval(i) PROVE BillInv'
  BY <1>4 DEF Bill!ChooseInterval, SelectionIsClicked, KnowsSubscription
<1>5. ASSUME NEW p \in Plan, Bill!SelectPlan(p) PROVE BillInv'
  BY <1>5, NoneIsNoPlan DEF Bill!SelectPlan, SelectionIsClicked, KnowsSubscription
<1>6. CASE Bill!UpgradePlan
  <2> DEFINE new == [plan |-> billSelected, interval |-> billInterval, knew |-> sub # None,
                     chosen |-> billChosen, clicked |-> clicked, had |-> subscribed.plan,
                     changed |-> changes > 0]
  <2>1. /\ bought' = bought \cup {new} /\ billSelected \in plans
        /\ billSelected # (IF sub = None THEN None ELSE sub.plan)
        /\ billPending' = billPending \cup {"checkout"}
        /\ UNCHANGED <<subscribed, sub, plans, billInterval, billSelected, billChosen, clicked,
                       changes>>
    BY <1>6 DEF Bill!UpgradePlan, Bill!Current
  <2>2. /\ new.plan = billSelected /\ new.interval = billInterval /\ new.chosen = billChosen
        /\ new.clicked = clicked /\ new.had = subscribed.plan
    OBVIOUS
  <2>3. (new.knew = (sub # None)) /\ (new.changed = (changes > 0))
    BY Zenon
  <2> HIDE DEF new
  <2>4. billSelected # None
    BY <2>1, NoneIsNoPlan
  <2>5. billSelected = (IF clicked = None THEN First ELSE clicked)
    BY <2>1, <2>4 DEF SelectionIsClicked
  <2>6. billSelected = subscribed.plan => ~(sub # None) \/ changes > 0
    BY <2>1 DEF KnowsSubscription
  <2>7. Checkout(new)
    <3>1. new.plan = new.had => ~new.knew \/ new.changed
      BY <2>2, <2>3, <2>6, Zenon
    <3> QED
      BY <2>2, <2>5, <3>1 DEF Checkout
  <2>8. SelectionIsClicked' /\ KnowsSubscription'
    BY <2>1 DEF SelectionIsClicked, KnowsSubscription
  <2> QED
    BY <2>1, <2>7, <2>8
<1>7. CASE Bill!AnswerCheckout
  <2>1. /\ "subscription" \in billPending' => "subscription" \in billPending
        /\ UNCHANGED <<subscribed, sub, plans, billInterval, billSelected, billChosen, clicked,
                       bought, changes>>
    BY <1>7 DEF Bill!AnswerCheckout
  <2> QED
    BY <2>1 DEF SelectionIsClicked, KnowsSubscription
<1>8. CASE Bill!SubscribedElsewhere
  BY <1>8 DEF Bill!SubscribedElsewhere, SelectionIsClicked, KnowsSubscription
<1> QED
  BY <1>1, <1>2, <1>3, <1>4, <1>5, <1>6, <1>7, <1>8 DEF Bill!BillingNext

LEMMA CheckoutIsRight == BillInv => Bill!CheckoutAsChosen
BY DEF BillInv, Checkout, Bill!CheckoutAsChosen

\* The agent has the tools ticked, and a tenant's steps, its users, its status
\* and its checkout are those the user asked for.
THEOREM TenantsAreAsSet == ConsoleSpec => []TenantsAsSet
<1> DEFINE Inv == AgentInv /\ WizardInv /\ TenantInv /\ BillInv
<1>1. ConsoleInit => Inv
  BY AgentInitInv, WizardInitInv, TenantInitInv, BillInitInv DEF ConsoleInit
<1>2. Inv /\ [ConsoleNext]_<<part, parts>> => Inv'
  BY AgentNextInv, WizardNextInv, TenantNextInv, BillNextInv DEF ConsoleNext, parts
<1>3. Inv => TenantsAsSet
  BY AgentIsRight, StepsAreRight, TenantsAreRight, CheckoutIsRight DEF TenantsAsSet
<1> QED
  BY <1>1, <1>2, <1>3, ConsoleSafety, PTL

-----------------------------------------------------------------------------
(* The tabs of a browser (ConsoleSession) *)

TabShapes ==
    /\ at \in [Tab -> {"login", "app"}]
    /\ tabShown = [t \in Tab |-> tabShown[t]]
    /\ features = [t \in Tab |-> features[t]] /\ tabAsked = [t \in Tab |-> tabAsked[t]]

\* A page shows the tenant of its requests until the store changes under it.
ShownIsCurrent ==
    \A t \in Tab : at[t] = "app" /\ t \notin moved /\ Tabs!Live =>
        tabShown[t] = Tabs!DataTenant(session, scope)

\* The features of a user without the whole platform are those of its home, and
\* so are those still on their way.
FeaturesOfHome ==
    \A t \in Tab : at[t] = "app" /\ t \notin mixed /\ Tabs!Live /\ session \notin Admin =>
        features[t] \subseteq Bought[Home[session]] /\ tabAsked[t] \subseteq {Home[session]}

TabInv ==
    /\ TabShapes /\ ShownIsCurrent /\ FeaturesOfHome
    /\ \A w \in tabWritten : w.to = w.shown \/ w.moved

LEMMA TabInitInv == Tabs!SessionInit => TabInv
BY DEF Tabs!SessionInit, TabInv, TabShapes, ShownIsCurrent, FeaturesOfHome

LEMMA TabOpens ==
    ASSUME TabInv, NEW t \in Tab, NEW afresh \in BOOLEAN, Tabs!Open(t, afresh), UNCHANGED tabWritten,
           \/ /\ Tabs!UnderOthers(t) /\ afresh
           \/ /\ UNCHANGED <<session, expired, scope>> /\ moved' = moved \ {t}
              /\ afresh \/ at[t] = "app"
              /\ mixed' = IF afresh \/ ~Tabs!Live THEN mixed \ {t} ELSE mixed
    PROVE  TabInv'
<1> USE DEF TabInv, TabShapes, Tabs!Open, Tabs!UnderOthers, Tabs!Live, Tabs!DataTenant
<1>1. TabShapes'
  OBVIOUS
<1>2. ASSUME NEW u \in Tab, u # t, at'[u] = "app"
      PROVE  /\ at[u] = "app" /\ tabShown'[u] = tabShown[u] /\ features'[u] = features[u]
             /\ tabAsked'[u] = tabAsked[u]
             /\ \/ u \in moved' /\ u \in mixed'
                \/ /\ UNCHANGED <<session, expired, scope>>
                   /\ u \notin moved' => u \notin moved
                   /\ u \notin mixed' => u \notin mixed
  BY <1>2
<1>3. ASSUME at'[t] = "app"
      PROVE  tabShown'[t] = Tabs!DataTenant(session', scope')
  BY <1>3
<1>4. ASSUME at'[t] = "app", session' \notin Admin, t \notin mixed'
      PROVE  features'[t] \subseteq Bought[Home[session']] /\ tabAsked'[t] \subseteq {Home[session']}
  <2>1. CASE afresh
    BY <1>4, <2>1
  <2>2. CASE ~afresh
    <3>1. /\ at[t] = "app" /\ t \notin mixed /\ session # None /\ ~expired /\ session' = session
          /\ features'[t] = features[t]
          /\ tabAsked'[t] = tabAsked[t] \cup {Home[session]}
      BY <1>4, <2>2
    <3> QED
      BY <1>4, <3>1 DEF FeaturesOfHome
  <2> QED
    BY <2>1, <2>2
<1>5. ShownIsCurrent'
  BY <1>2, <1>3 DEF ShownIsCurrent
<1>6. FeaturesOfHome'
  BY <1>2, <1>4 DEF FeaturesOfHome
<1> QED
  BY <1>1, <1>5, <1>6

LEMMA TabNextInv == ASSUME TabInv, [Tabs!SessionNext]_tabPart PROVE TabInv'
<1>1. CASE UNCHANGED tabPart
  BY <1>1 DEF tabPart, TabInv, TabShapes, ShownIsCurrent, FeaturesOfHome, Tabs!Live,
     Tabs!DataTenant
<1>2. ASSUME NEW t \in Tab, NEW user \in Account, Tabs!Login(t, user) PROVE TabInv'
  BY <1>2, TabOpens DEF Tabs!Login
<1>3. ASSUME NEW t \in Tab, Tabs!Logout(t) PROVE TabInv'
  BY <1>3, TabOpens DEF Tabs!Logout
<1>4. ASSUME NEW t \in Tab, NEW afresh \in BOOLEAN, Tabs!Navigate(t, afresh) PROVE TabInv'
  BY <1>4, TabOpens DEF Tabs!Navigate
<1>5. ASSUME NEW t \in Tab, NEW tenant \in Tenant, Tabs!ChooseScope(t, tenant) PROVE TabInv'
  BY <1>5, TabOpens DEF Tabs!ChooseScope
<1> USE DEF TabInv, TabShapes, ShownIsCurrent, FeaturesOfHome, Tabs!Live, Tabs!DataTenant
<1>6. ASSUME NEW t \in Tab, Tabs!AnswerTenants(t) PROVE TabInv'
  BY <1>6 DEF Tabs!AnswerTenants
<1>7. ASSUME NEW t \in Tab, NEW tenant \in Tenant, Tabs!AnswerFeatures(t, tenant) PROVE TabInv'
  BY <1>7 DEF Tabs!AnswerFeatures
<1>8. ASSUME NEW t \in Tab, Tabs!Poll(t) PROVE TabInv'
  <2>1. TabShapes' /\ FeaturesOfHome' /\ tabWritten' = tabWritten
    BY <1>8 DEF Tabs!Poll
  <2>2. ShownIsCurrent'
    BY <1>8 DEF Tabs!Poll
  <2> QED
    BY <2>1, <2>2
<1>9. ASSUME NEW t \in Tab, Tabs!Write(t) PROVE TabInv'
  <2> DEFINE new == [to |-> Tabs!DataTenant(session, scope), shown |-> tabShown[t],
                     moved |-> t \in moved]
  <2>1. TabShapes' /\ ShownIsCurrent' /\ FeaturesOfHome' /\ tabWritten' = tabWritten \cup {new}
    BY <1>9 DEF Tabs!Write
  <2>2. t \in moved \/ tabShown[t] = Tabs!DataTenant(session, scope)
    BY <1>9 DEF Tabs!Write
  <2>3. new.to = new.shown \/ new.moved
    BY <2>2, Zenon
  <2> HIDE DEF new
  <2> QED
    BY <2>1, <2>3
<1>10. ASSUME Tabs!Expire PROVE TabInv'
  BY <1>10 DEF Tabs!Expire
<1> QED
  BY <1>1, <1>2, <1>3, <1>4, <1>5, <1>6, <1>7, <1>8, <1>9, <1>10 DEF Tabs!SessionNext

LEMMA TabStaysInPlace == TabInv => TabsInPlace
BY DEF TabInv, TabsInPlace, Tabs!TabsInPlace, Tabs!Offered, Tabs!IsAdmin, Tabs!Live, FeaturesOfHome

\* A change lands in the tenant the tab shows, and the tab's menu offers what that
\* tenant has bought, unless the scope moved under it (TenantScopeSelector, auth.ts).
THEOREM TabsStayInPlace == ConsoleSpec => []TabsInPlace
<1>1. ConsoleInit => TabInv
  BY TabInitInv DEF ConsoleInit
<1>2. TabInv /\ [ConsoleNext]_<<part, parts>> => TabInv'
  BY TabNextInv DEF ConsoleNext, parts
<1> QED
  BY <1>1, <1>2, ConsoleSafety, TabStaysInPlace, PTL

-----------------------------------------------------------------------------
(* The frames of the water meters (ShengdaCodec) *)

\* A set with 0 that goes on from each number to the next has them all.
LEMMA AllNumbers ==
    ASSUME NEW S, 0 \in S, \A n \in Nat : n \in S => n + 1 \in S
    PROVE  \A n \in Nat : n \in S
<1> SUFFICES ASSUME NEW m \in Nat, m \notin S PROVE FALSE
  OBVIOUS
<1> DEFINE Missing == {n \in Nat : n \notin S}
<1>1. Missing \subseteq Nat /\ Missing # {}
  OBVIOUS
<1> HIDE DEF Missing
<1>2. PICK x \in Missing : \A y \in Missing : ~(<<y, x>> \in OpToRel(<, Nat))
  BY <1>1, WFMin, NatLessThanWellFounded, Zenon
<1>3. \A n, k \in Nat : n < k => <<n, k>> \in OpToRel(<, Nat)
  BY Zenon DEF OpToRel
<1>4. \A y \in Missing : ~(y < x)
  BY <1>1, <1>2, <1>3, Zenon
<1> QED
  BY <1>4 DEF Missing

-----------------------------------------------------------------------------

\* Bytes that can be read up to `end`; the one behind it is a checksum.
Readable(bytes, end) ==
    /\ \E S : bytes \in Seq(S)
    /\ end \in 0..Len(bytes) /\ \A k \in 1..end : bytes[k] \in Nat

\* What the reading that continues with f makes of the item at byte i.
ReadFrom(bytes, end, f, i) ==
    IF Codec!Stops(bytes, i, end) THEN Codec!Nothing
    ELSE LET item == Codec!ItemAt(bytes, i)
             next == item.at + item.length
         IN  Codec!Over(f[next], Codec!Single(item.type, SubSeq(bytes, item.at, next - 1)))

LEMMA TypeLengthType == ASSUME NEW type PROVE Codec!TypeLength(type) \in Nat \cup {-1}
BY DEF Codec!TypeLength

\* Reading goes forward, and not beyond the bytes.
LEMMA ReadingGoesForward ==
    ASSUME NEW bytes, NEW end, Readable(bytes, end),
           NEW i \in 1..(Len(bytes) + 1), ~Codec!Stops(bytes, i, end)
    PROVE  Codec!ItemAt(bytes, i).at + Codec!ItemAt(bytes, i).length \in (i + 1)..(Len(bytes) + 1)
<1> DEFINE item == Codec!ItemAt(bytes, i)
<1>0. Len(bytes) \in Nat
  BY DEF Readable
<1>1. i <= end /\ end <= Len(bytes) /\ end \in Nat /\ i \in Nat /\ bytes[i] \in Nat
  BY <1>0 DEF Codec!Stops, Readable
<1>2. \A k \in 1..end : Codec!Byte(bytes, k) \in Nat
  BY <1>0 DEF Codec!Byte, Readable
<1>3. item.at \in Nat /\ item.at >= i + 1 /\ item.given \in BOOLEAN /\ (item.given => item.at - 1 >= i + 1)
  <2>1. Codec!ParseType(bytes, i).size \in {1, 2}
    BY <1>1 DEF Codec!ParseType
  <2>2. /\ item.at = i + Codec!ParseType(bytes, i).size + IF item.given THEN 1 ELSE 0
        /\ item.given = (bytes[i] >= 128)
    BY DEF Codec!ItemAt
  <2> HIDE DEF item
  <2>3. item.given \in BOOLEAN
    BY <2>2
  <2> QED
    BY <1>1, <2>1, <2>2, <2>3
<1>4. item.given => item.at - 1 \in 1..end
  BY <1>1, <1>3 DEF Codec!Stops
<1>5. item.length \in Nat \cup {-1}
  BY <1>2, <1>4, TypeLengthType DEF Codec!ItemAt
<1>6. item.length # -1 /\ item.at + item.length <= Len(bytes) + 1
  BY <1>0, <1>3, <1>5 DEF Codec!Stops
<1> QED
  BY <1>0, <1>1, <1>3, <1>5, <1>6

LEMMA LooksAhead ==
    ASSUME NEW bytes, NEW end, Readable(bytes, end),
           NEW i \in 1..(Len(bytes) + 1), NEW f, NEW g,
           \A j \in (i + 1)..(Len(bytes) + 1) : f[j] = g[j]
    PROVE  ReadFrom(bytes, end, f, i) = ReadFrom(bytes, end, g, i)
BY ReadingGoesForward DEF ReadFrom

\* So the recursion of readTvItems is one: each item is read, then the rest.
LEMMA ReadingUnfolds ==
    ASSUME NEW bytes, NEW end, Readable(bytes, end),
           NEW i \in 1..(Len(bytes) + 1)
    PROVE  LET item == Codec!ItemAt(bytes, i)
               next == item.at + item.length
           IN  Codec!ReadItems(bytes, i, end) =
                  IF Codec!Stops(bytes, i, end) THEN Codec!Nothing
                  ELSE Codec!Over(Codec!ReadItems(bytes, next, end),
                                  Codec!Single(item.type, SubSeq(bytes, item.at, next - 1)))
<1> DEFINE N == Len(bytes) + 1
           Reading(f, k) == f = [j \in (N + 1 - k)..N |-> ReadFrom(bytes, end, f, j)]
           Long == {k \in Nat : k <= N => \E f : Reading(f, k)}
<1>0. N \in Nat
  BY DEF Readable
<1> HIDE DEF N
<1>1. 0 \in Long
  <2> DEFINE f == [j \in (N + 1 - 0)..N |-> Codec!Nothing]
  <2>1. (N + 1 - 0)..N = {}
    BY <1>0
  <2>2. Reading(f, 0)
    BY <2>1
  <2> QED
    BY <2>2
<1>2. \A k \in Nat : k \in Long => k + 1 \in Long
  <2> SUFFICES ASSUME NEW k \in Nat, k + 1 <= N, NEW f, Reading(f, k)
               PROVE  \E g : Reading(g, k + 1)
    <3> HIDE DEF Reading
    <3> QED
      BY <1>0
  <2> DEFINE first == N + 1 - (k + 1)
             g == [j \in first..N |-> IF j = first THEN ReadFrom(bytes, end, f, j) ELSE f[j]]
  <2>0. first + 1 = N + 1 - k /\ first \in Nat
    BY <1>0
  <2> HIDE DEF first
  <2>1. \A j \in (first + 1)..N : f[j] = ReadFrom(bytes, end, f, j)
    BY <2>0
  <2>2. \A j \in first..N : ReadFrom(bytes, end, f, j) = ReadFrom(bytes, end, g, j)
    <3> SUFFICES ASSUME NEW j \in first..N
                 PROVE  ReadFrom(bytes, end, f, j) = ReadFrom(bytes, end, g, j)
      OBVIOUS
    <3>1. \A n \in (j + 1)..N : f[n] = g[n]
      BY <1>0, <2>0
    <3>2. N = Len(bytes) + 1
      BY DEF N
    <3>3. j \in 1..N
      BY <1>0, <2>0 DEF first
    <3>4. /\ \A n \in (j + 1)..(Len(bytes) + 1) : f[n] = g[n]
          /\ j \in 1..(Len(bytes) + 1)
      BY <3>1, <3>2, <3>3
    <3> HIDE DEF g
    <3> QED
      BY <3>4, LooksAhead, Zenon
  <2>3. \A j \in first..N : g[j] = ReadFrom(bytes, end, g, j)
    BY <1>0, <2>0, <2>1, <2>2
  <2>4. Reading(g, k + 1)
    BY <2>3 DEF first
  <2> QED
    BY <2>4
<1>3. N \in Long
  <2> HIDE DEF Long
  <2> QED
    BY <1>0, <1>1, <1>2, AllNumbers
<1>4. \E f : f = [j \in 1..N |-> ReadFrom(bytes, end, f, j)]
  <2>1. N + 1 - N = 1 /\ N <= N
    BY <1>0
  <2> QED
    BY <1>3, <2>1
<1> DEFINE from == CHOOSE f : f = [j \in 1..N |-> ReadFrom(bytes, end, f, j)]
<1>5. from = [j \in 1..N |-> ReadFrom(bytes, end, from, j)]
  BY <1>4, Zenon
<1>6. \A j : Codec!ReadItems(bytes, j, end) = from[j]
  BY Zenon DEF Codec!ReadItems, ReadFrom, N
<1> HIDE DEF from
<1>7. from[i] = ReadFrom(bytes, end, from, i)
  BY <1>5 DEF N
<1> QED
  BY <1>6, <1>7, Zenon DEF ReadFrom

-----------------------------------------------------------------------------

\* A str stands in the bytes, after byte `off`.
Carries(bytes, off, str) ==
    /\ off \in Nat /\ Len(bytes) \in Nat /\ off + Len(str) <= Len(bytes)
    /\ \A k \in 1..Len(str) : bytes[off + k] = str[k]

\* A value stands in the bytes, from byte `first` on.
StandsAt(bytes, first, value) == \A k \in 1..Len(value) : bytes[first + k - 1] = value[k]

\* It ends the str, behind `before` bytes of its own.
EndsIn(str, before, value) ==
    /\ before \in Nat /\ Len(value) \in Nat /\ Len(str) = before + Len(value)
    /\ \A k \in 1..Len(value) : str[before + k] = value[k]

LEMMA ValueStands ==
    ASSUME NEW bytes, NEW off, NEW str, NEW value, NEW before,
           EndsIn(str, before, value), Carries(bytes, off, str)
    PROVE  StandsAt(bytes, off + 1 + before, value)
<1>1. /\ off \in Nat /\ before \in Nat /\ Len(value) \in Nat /\ Len(str) = before + Len(value)
      /\ \A k \in 1..Len(value) : str[before + k] = value[k]
      /\ \A k \in 1..Len(str) : bytes[off + k] = str[k]
  BY DEF EndsIn, Carries
<1>2. \A k \in 1..Len(value) :
         before + k \in 1..Len(str) /\ off + 1 + before + k - 1 = off + (before + k)
  BY <1>1
<1> QED
  BY <1>1, <1>2, Zenon DEF StandsAt

\* The bytes before it, wherever they stand.
LEMMA TagStands ==
    ASSUME NEW bytes, NEW off, NEW str, NEW value, NEW before,
           EndsIn(str, before, value), Carries(bytes, off, str)
    PROVE  /\ before >= 1 => bytes[off + 1] = str[1]
           /\ before >= 2 => bytes[off + 1 + 1] = str[2] /\ off + 1 + 1 <= Len(bytes)
           /\ before >= 3 => bytes[off + 1 + 2] = str[3] /\ off + 1 + 2 <= Len(bytes)
<1>1. /\ off \in Nat /\ before \in Nat /\ Len(value) \in Nat /\ Len(str) = before + Len(value)
      /\ Len(bytes) \in Nat /\ off + Len(str) <= Len(bytes)
      /\ \A k \in 1..Len(str) : bytes[off + k] = str[k]
  BY DEF EndsIn, Carries
<1>2. /\ before >= 1 => 1 \in 1..Len(str)
      /\ before >= 2 => 2 \in 1..Len(str) /\ off + 1 + 1 = off + 2 /\ off + 1 + 1 <= Len(bytes)
      /\ before >= 3 => 3 \in 1..Len(str) /\ off + 1 + 2 = off + 3 /\ off + 1 + 2 <= Len(bytes)
  BY <1>1
<1> QED
  BY <1>1, <1>2, Zenon

LEMMA ValueIsCut ==
    ASSUME NEW bytes, NEW end, Readable(bytes, end), NEW value \in Seq(Nat), NEW first \in Nat \ {0},
           first + Len(value) <= Len(bytes) + 1, StandsAt(bytes, first, value)
    PROVE  SubSeq(bytes, first, first + Len(value) - 1) = value
<1> PICK S : bytes \in Seq(S)
  BY DEF Readable
<1> DEFINE cut == SubSeq(bytes, first, first + Len(value) - 1)
<1>1. /\ Len(value) \in Nat /\ Len(bytes) \in Nat
      /\ \A k \in 1..Len(value) : bytes[first + k - 1] = value[k]
  BY DEF StandsAt
<1>2. CASE Len(value) = 0
  <2>1. cut = << >>
    BY <1>1, <1>2, SubSeqEmpty
  <2> QED
    BY <1>2, <2>1
<1>3. CASE Len(value) # 0
  <2>1. cut = [k \in 1..Len(value) |-> bytes[first + k - 1]]
    BY <1>1, <1>3
  <2> QED
    BY <1>1, <2>1
<1> QED
  BY <1>2, <1>3

\* A str of a value with the bytes of its tag before it, and its length where that is given.
PlainStr(str, tag, value) == str = <<tag>> \o value
LongStr(str, tag, value) == str = <<tag, Len(value)>> \o value
WideStr(str, tag, low, value) == str = <<tag, low, Len(value)>> \o value

LEMMA PlainStrIs ==
    ASSUME NEW x \in Nat, NEW s \in Seq(Nat), NEW str, PlainStr(str, x, s)
    PROVE  /\ str \in Seq(Nat) /\ Len(str) \in Nat \ {0} /\ EndsIn(str, 1, s)
           /\ str[1] = x
BY DEF EndsIn, PlainStr

LEMMA LongStrIs ==
    ASSUME NEW x \in Nat, NEW s \in Seq(Nat), NEW str, LongStr(str, x, s)
    PROVE  /\ str \in Seq(Nat) /\ Len(str) \in Nat \ {0} /\ EndsIn(str, 2, s)
           /\ str[1] = x /\ str[2] = Len(s)
BY DEF EndsIn, LongStr

LEMMA WideStrIs ==
    ASSUME NEW x \in Nat, NEW y \in Nat, NEW s \in Seq(Nat), NEW str, WideStr(str, x, y, s)
    PROVE  /\ str \in Seq(Nat) /\ Len(str) \in Nat \ {0} /\ EndsIn(str, 3, s)
           /\ str[1] = x /\ str[2] = y /\ str[3] = Len(s)
BY DEF EndsIn, WideStr

LEMMA ItemShapes ==
    ASSUME NEW item \in CodecItem
    PROVE  /\ item.value \in Seq(Nat) /\ Len(item.value) \in Nat
           /\ item.form \in {"plain", "long", "wide"}
           /\ item.form = "plain" => /\ item.type \in 0..63
                                     /\ Codec!TypeLength(item.type) \in {-1, Len(item.value)}
           /\ item.form = "long" => item.type \in 0..63 /\ Len(item.value) \in 0..255
           /\ item.form = "wide" => /\ item.type \in Nat /\ item.type \div 256 <= 63
                                    /\ Len(item.value) \in 0..255
<1>1. item.value \in Seq(0..255)
  BY ItemsAreBytes, Zenon
<1>2. item.value \in Seq(Nat) /\ Len(item.value) \in Nat
  <2>1. 0..255 \subseteq Nat
    OBVIOUS
  <2> QED
    BY <1>1, <2>1, SeqMonotonic, LenProperties, Zenon
<1>3. Len(item.value) <= 255 => Len(item.value) \in 0..255
  <2>1. \A n \in Nat : n <= 255 => n \in 0..255
    OBVIOUS
  <2> QED
    BY <1>2, <2>1, Zenon
<1>4. \/ /\ item.form = "plain" /\ item.type \in 0..63
         /\ Codec!TypeLength(item.type) \in {-1, Len(item.value)}
      \/ item.form = "long" /\ item.type \in 0..63 /\ Len(item.value) <= 255
      \/ item.form = "wide" /\ item.type \in Nat /\ item.type \div 256 <= 63
         /\ Len(item.value) <= 255
  BY ItemsAreBytes, Zenon
<1> HIDE ItemsAreBytes
<1> QED
  BY <1>2, <1>3, <1>4

LEMMA SmallNumbers ==
    \A t \in 0..63 : t \in Nat /\ 128 + t \in Nat
OBVIOUS

LEMMA TwoByteNumbers ==
    \A t \in Nat : 192 + t \div 256 \in Nat /\ t % 256 \in Nat
OBVIOUS

LEMMA PlainShape ==
    ASSUME NEW item \in CodecItem, item.form = "plain"
    PROVE  item.type \in 0..63 /\ item.type \in Nat
<1>1. item.type \in 0..63
  BY ItemShapes, Zenon
<1> QED
  BY <1>1, SmallNumbers, Zenon

LEMMA LongShape ==
    ASSUME NEW item \in CodecItem, item.form = "long"
    PROVE  item.type \in 0..63 /\ 128 + item.type \in Nat
<1>1. item.type \in 0..63
  BY ItemShapes, Zenon
<1> QED
  BY <1>1, SmallNumbers, Zenon

LEMMA WideShape ==
    ASSUME NEW item \in CodecItem, item.form = "wide"
    PROVE  /\ item.type \in Nat /\ item.type \div 256 <= 63
           /\ 192 + item.type \div 256 \in Nat /\ item.type % 256 \in Nat
<1>1. item.type \in Nat /\ item.type \div 256 <= 63
  BY ItemShapes, Zenon
<1> QED
  BY <1>1, TwoByteNumbers, Zenon

LEMMA PlainBytes ==
    ASSUME NEW item, item.form = "plain"
    PROVE  Codec!BytesOf(item) = <<item.type>> \o item.value
BY Zenon DEF Codec!BytesOf

LEMMA LongBytes ==
    ASSUME NEW item, item.form = "long"
    PROVE  Codec!BytesOf(item) = <<128 + item.type, Len(item.value)>> \o item.value
BY DEF Codec!BytesOf

LEMMA WideBytes ==
    ASSUME NEW item, item.form = "wide"
    PROVE  Codec!BytesOf(item) =
              <<192 + item.type \div 256, item.type % 256, Len(item.value)>> \o item.value
BY DEF Codec!BytesOf

\* What the reading makes of the three forms of a tag.
PlainTag(tag, t) == t \in 0..63 /\ tag = t
LongTag(tag, t) == t \in 0..63 /\ tag = 128 + t
WideTag(tag, low, t) == t \in Nat /\ t \div 256 <= 63 /\ tag = 192 + t \div 256 /\ low = t % 256

LEMMA PlainTagRead ==
    ASSUME NEW bytes, NEW i \in Nat, NEW t, PlainTag(bytes[i], t)
    PROVE  Codec!ItemAt(bytes, i) =
              [type |-> t, given |-> FALSE, at |-> i + 1, length |-> Codec!TypeLength(t)]
<1>1. (bytes[i] \div 64) % 2 # 1 /\ bytes[i] % 64 = t
  BY DEF PlainTag
<1>2. (bytes[i] >= 128) = FALSE
  BY DEF PlainTag
<1>3. Codec!ParseType(bytes, i) = [type |-> t, size |-> 1]
  BY <1>1, Zenon DEF Codec!ParseType
<1>4. Codec!ParseType(bytes, i).type = t /\ Codec!ParseType(bytes, i).size = 1
  BY <1>3
<1>5. i + 1 + 0 = i + 1
  OBVIOUS
<1> QED
  BY <1>2, <1>4, <1>5, Zenon DEF Codec!ItemAt

LEMMA LongTagRead ==
    ASSUME NEW bytes, NEW i \in Nat, NEW t, LongTag(bytes[i], t), i + 1 <= Len(bytes)
    PROVE  Codec!ItemAt(bytes, i) =
              [type |-> t, given |-> TRUE, at |-> i + 2, length |-> bytes[i + 1]]
<1>1. (bytes[i] \div 64) % 2 # 1 /\ bytes[i] % 64 = t
  BY DEF LongTag
<1>2. (bytes[i] >= 128) = TRUE
  BY DEF LongTag
<1>3. Codec!ParseType(bytes, i) = [type |-> t, size |-> 1]
  BY <1>1, Zenon DEF Codec!ParseType
<1>4. Codec!ParseType(bytes, i).type = t /\ Codec!ParseType(bytes, i).size = 1
  BY <1>3
<1>5. i + 1 + 1 = i + 2 /\ (i + 2) - 1 = i + 1
  OBVIOUS
<1>6. Codec!Byte(bytes, i + 1) = bytes[i + 1]
  BY Zenon DEF Codec!Byte
<1> QED
  BY <1>2, <1>4, <1>5, <1>6, Zenon DEF Codec!ItemAt

LEMMA WideTagRead ==
    ASSUME NEW bytes, NEW i \in Nat, NEW t, WideTag(bytes[i], bytes[i + 1], t),
           i + 1 <= Len(bytes), i + 2 <= Len(bytes)
    PROVE  Codec!ItemAt(bytes, i) =
              [type |-> t, given |-> TRUE, at |-> i + 3, length |-> bytes[i + 2]]
<1>1. (bytes[i] \div 64) % 2 = 1 /\ (bytes[i] % 64) * 256 + bytes[i + 1] = t
  <2>1. /\ t \in Nat /\ t \div 256 <= 63 /\ bytes[i] = 192 + t \div 256
        /\ bytes[i + 1] = t % 256
    BY DEF WideTag
  <2>2. PICK h \in 0..63 : h = t \div 256
    BY <2>1
  <2>3. h * 256 + (t % 256) = t
    BY <2>1, <2>2
  <2>4. (bytes[i] \div 64) % 2 = 1 /\ bytes[i] % 64 = h
    <3>1. bytes[i] = 192 + h
      BY <2>1, <2>2
    <3> QED
      BY <3>1
  <2> QED
    BY <2>1, <2>3, <2>4
<1>2. (bytes[i] >= 128) = TRUE
  BY DEF WideTag
<1>3. Codec!Byte(bytes, i + 1) = bytes[i + 1] /\ Codec!Byte(bytes, i + 2) = bytes[i + 2]
  BY Zenon DEF Codec!Byte
<1>4. Codec!ParseType(bytes, i) = [type |-> t, size |-> 2]
  BY <1>1, <1>3, Zenon DEF Codec!ParseType
<1>5. Codec!ParseType(bytes, i).type = t /\ Codec!ParseType(bytes, i).size = 2
  BY <1>4
<1>6. i + 2 + 1 = i + 3 /\ (i + 3) - 1 = i + 2
  OBVIOUS
<1> QED
  BY <1>2, <1>3, <1>5, <1>6, Zenon DEF Codec!ItemAt

\* What the reading makes of the bytes of an item: `before` of them stand before its value.
Reads(bytes, off, str, before, type, length, value) ==
    /\ str \in Seq(Nat) /\ Len(str) \in Nat \ {0} /\ EndsIn(str, before, value)
    /\ Carries(bytes, off, str) =>
          /\ Codec!ItemAt(bytes, off + 1) =
                [type |-> type, given |-> before # 1, at |-> off + 1 + before, length |-> length]
          /\ StandsAt(bytes, off + 1 + before, value)

LEMMA PlainRead ==
    ASSUME NEW bytes, NEW off, NEW t \in Nat, PlainTag(t, t), NEW value \in Seq(Nat),
           NEW str, PlainStr(str, t, value)
    PROVE  Reads(bytes, off, str, 1, t, Codec!TypeLength(t), value)
<1>1. str \in Seq(Nat) /\ Len(str) \in Nat \ {0} /\ EndsIn(str, 1, value) /\ str[1] = t
  BY PlainStrIs, Zenon
<1>2. ASSUME Carries(bytes, off, str)
      PROVE  Codec!ItemAt(bytes, off + 1) =
                [type |-> t, given |-> 1 # 1, at |-> off + 1 + 1, length |-> Codec!TypeLength(t)]
  <2>1. off + 1 \in Nat /\ 1 >= 1 /\ (1 # 1) = FALSE
    BY <1>2 DEF Carries
  <2>2. bytes[off + 1] = t
    BY <1>1, <1>2, <2>1, TagStands, Zenon
  <2> QED
    BY <2>1, <2>2, PlainTagRead, Zenon
<1>3. ASSUME Carries(bytes, off, str) PROVE StandsAt(bytes, off + 1 + 1, value)
  BY <1>1, <1>3, ValueStands, Zenon
<1> QED
  BY <1>1, <1>2, <1>3, Zenon DEF Reads

LEMMA LongRead ==
    ASSUME NEW bytes, NEW off, NEW t, NEW tag \in Nat, LongTag(tag, t), NEW value \in Seq(Nat),
           NEW str, LongStr(str, tag, value)
    PROVE  Reads(bytes, off, str, 2, t, Len(value), value)
<1>1. /\ str \in Seq(Nat) /\ Len(str) \in Nat \ {0} /\ EndsIn(str, 2, value)
      /\ str[1] = tag /\ str[2] = Len(value)
  BY LongStrIs, Zenon
<1>2. ASSUME Carries(bytes, off, str)
      PROVE  Codec!ItemAt(bytes, off + 1) =
                [type |-> t, given |-> 2 # 1, at |-> off + 1 + 2, length |-> Len(value)]
  <2>1. off + 1 \in Nat /\ 2 >= 1 /\ 2 >= 2 /\ (2 # 1) = TRUE
    BY <1>2 DEF Carries
  <2>2. /\ bytes[off + 1] = tag /\ bytes[off + 1 + 1] = Len(value) /\ off + 1 + 1 <= Len(bytes)
    BY <1>1, <1>2, <2>1, TagStands, Zenon
  <2> QED
    BY <2>1, <2>2, LongTagRead, Zenon
<1>3. ASSUME Carries(bytes, off, str) PROVE StandsAt(bytes, off + 1 + 2, value)
  BY <1>1, <1>3, ValueStands, Zenon
<1> QED
  BY <1>1, <1>2, <1>3, Zenon DEF Reads

LEMMA WideRead ==
    ASSUME NEW bytes, NEW off, NEW t, NEW tag \in Nat, NEW low \in Nat, WideTag(tag, low, t),
           NEW value \in Seq(Nat),
           NEW str, WideStr(str, tag, low, value)
    PROVE  Reads(bytes, off, str, 3, t, Len(value), value)
<1>1. /\ str \in Seq(Nat) /\ Len(str) \in Nat \ {0} /\ EndsIn(str, 3, value)
      /\ str[1] = tag /\ str[2] = low /\ str[3] = Len(value)
  BY WideStrIs
<1>2. ASSUME Carries(bytes, off, str)
      PROVE  Codec!ItemAt(bytes, off + 1) =
                [type |-> t, given |-> 3 # 1, at |-> off + 1 + 3, length |-> Len(value)]
  <2>1. off + 1 \in Nat /\ 3 >= 1 /\ 3 >= 2 /\ 3 >= 3 /\ (3 # 1) = TRUE
    BY <1>2 DEF Carries
  <2>2. /\ bytes[off + 1] = tag /\ bytes[off + 1 + 1] = low /\ bytes[off + 1 + 2] = Len(value)
        /\ off + 1 + 1 <= Len(bytes) /\ off + 1 + 2 <= Len(bytes)
    BY <1>1, <1>2, <2>1, TagStands, Zenon
  <2> QED
    BY <2>1, <2>2, WideTagRead, Zenon
<1>3. ASSUME Carries(bytes, off, str) PROVE StandsAt(bytes, off + 1 + 3, value)
  BY <1>1, <1>3, ValueStands, Zenon
<1> QED
  BY <1>1, <1>2, <1>3, Zenon DEF Reads

-----------------------------------------------------------------------------

\* Reading goes on behind an item whose length is known...
LEMMA GoesOn ==
    ASSUME NEW bytes, NEW end, Readable(bytes, end), NEW off, NEW str, NEW before,
           NEW type, NEW value \in Seq(Nat), Reads(bytes, off, str, before, type, Len(value), value),
           Carries(bytes, off, str), off + Len(str) <= end
    PROVE  Codec!ReadItems(bytes, off + 1, end) =
              Codec!Over(Codec!ReadItems(bytes, off + Len(str) + 1, end), Codec!Single(type, value))
<1> DEFINE item == Codec!ItemAt(bytes, off + 1)
<1>1. /\ off \in Nat /\ Len(bytes) \in Nat /\ off + Len(str) <= Len(bytes)
      /\ end \in Nat /\ end <= Len(bytes)
      /\ Len(value) \in Nat /\ before \in Nat /\ Len(str) = before + Len(value)
      /\ Len(str) # 0
  BY DEF Readable, Carries, Reads, EndsIn
<1>2. /\ item = [type |-> type, given |-> before # 1, at |-> off + 1 + before, length |-> Len(value)]
      /\ StandsAt(bytes, off + 1 + before, value)
  BY Zenon DEF Reads
<1>3. /\ item.type = type /\ item.at = off + 1 + before /\ item.length = Len(value)
      /\ item.given = (before # 1)
  BY <1>2
<1> HIDE DEF item
<1>4. off + 1 \in 1..(Len(bytes) + 1) /\ off + 1 <= end
  BY <1>1
<1>5. /\ item.at - 1 <= end /\ item.length # -1 /\ item.at + item.length <= Len(bytes) + 1
      /\ item.at + item.length = off + Len(str) + 1
      /\ (item.at + item.length) - 1 = off + 1 + before + Len(value) - 1
      /\ off + 1 + before \in Nat \ {0} /\ off + 1 + before + Len(value) <= Len(bytes) + 1
  BY <1>1, <1>3
<1>6. ~Codec!Stops(bytes, off + 1, end)
  <2>1. ~(off + 1 > end) /\ ~(item.at - 1 > end) /\ ~(item.at + item.length > Len(bytes) + 1)
    BY <1>1, <1>3, <1>4, <1>5
  <2> QED
    BY <1>5, <2>1, Zenon DEF Codec!Stops, item
<1>7. SubSeq(bytes, off + 1 + before, off + 1 + before + Len(value) - 1) = value
  BY <1>2, <1>5, ValueIsCut, Zenon
<1>8. SubSeq(bytes, item.at, (item.at + item.length) - 1) = value
  BY <1>3, <1>5, <1>7, Zenon
<1>9. Codec!ReadItems(bytes, off + 1, end) =
         Codec!Over(Codec!ReadItems(bytes, item.at + item.length, end),
                    Codec!Single(item.type, SubSeq(bytes, item.at, (item.at + item.length) - 1)))
  BY <1>4, <1>6, ReadingUnfolds, Zenon DEF item
<1> QED
  BY <1>3, <1>5, <1>8, <1>9, Zenon

\* ... and ends at one of unknown length.
LEMMA Halts ==
    ASSUME NEW bytes, NEW end, Readable(bytes, end), NEW off, NEW str, NEW before,
           NEW type, NEW value, Reads(bytes, off, str, before, type, -1, value),
           Carries(bytes, off, str)
    PROVE  Codec!ReadItems(bytes, off + 1, end) = Codec!Nothing
<1> DEFINE item == Codec!ItemAt(bytes, off + 1)
<1>1. /\ off \in Nat /\ Len(bytes) \in Nat /\ off + Len(str) <= Len(bytes)
      /\ Len(value) \in Nat /\ before \in Nat /\ Len(str) = before + Len(value)
      /\ Len(str) # 0
  BY DEF Carries, Reads, EndsIn
<1>2. item = [type |-> type, given |-> before # 1, at |-> off + 1 + before, length |-> -1]
  BY Zenon DEF Reads
<1>3. item.length = -1
  BY <1>2
<1>4. Codec!Stops(bytes, off + 1, end)
  BY <1>3, Zenon DEF Codec!Stops
<1>5. off + 1 \in 1..(Len(bytes) + 1)
  BY <1>1
<1> QED
  BY <1>4, <1>5, ReadingUnfolds, Zenon

\* The items of a meter are written so that they can be read.
Known(item) == item.form # "plain" \/ Codec!TypeLength(item.type) = Len(item.value)

LEMMA ItemReads ==
    ASSUME NEW item \in CodecItem, NEW bytes, NEW off
    PROVE  \E before \in {1, 2, 3} :
              Reads(bytes, off, Codec!BytesOf(item), before, item.type,
                    IF Known(item) THEN Len(item.value) ELSE -1, item.value)
<1>0. item.value \in Seq(Nat) /\ item.form \in {"plain", "long", "wide"}
  BY ItemShapes
<1> DEFINE str == Codec!BytesOf(item)
           Read(before, length) == Reads(bytes, off, str, before, item.type, length, item.value)
<1>1. CASE item.form = "plain"
  <2>1. item.type \in Nat /\ PlainTag(item.type, item.type)
    BY <1>1, PlainShape, Zenon DEF PlainTag
  <2>2. PlainStr(str, item.type, item.value)
    BY <1>1, PlainBytes, Zenon DEF PlainStr
  <2>3. Read(1, Codec!TypeLength(item.type))
    BY <1>0, <2>1, <2>2, PlainRead, Zenon
  <2>4. Codec!TypeLength(item.type) = IF Known(item) THEN Len(item.value) ELSE -1
    <3>1. Codec!TypeLength(item.type) \in {-1, Len(item.value)}
      BY <1>1, ItemShapes, Zenon
    <3> QED
      BY <1>1, <3>1, Zenon DEF Known
  <2> QED
    BY <2>3, <2>4, Zenon
<1>2. CASE item.form = "long"
  <2>1. 128 + item.type \in Nat /\ LongTag(128 + item.type, item.type)
    BY <1>2, LongShape, Zenon DEF LongTag
  <2>2. LongStr(str, 128 + item.type, item.value)
    BY <1>2, LongBytes, Zenon DEF LongStr
  <2>3. Read(2, Len(item.value))
    <3> DEFINE tag == 128 + item.type
    <3>1. tag \in Nat /\ LongTag(tag, item.type) /\ LongStr(str, tag, item.value)
      BY <2>1, <2>2
    <3> HIDE DEF tag, str
    <3> QED
      BY <1>0, <3>1, LongRead, Zenon
  <2>4. Known(item)
    BY <1>2 DEF Known
  <2> QED
    BY <2>3, <2>4, Zenon
<1>3. CASE item.form = "wide"
  <2> DEFINE tag == 192 + item.type \div 256
             low == item.type % 256
  <2>1. tag \in Nat /\ low \in Nat /\ WideTag(tag, low, item.type)
    BY <1>3, WideShape, Zenon DEF WideTag
  <2>2. WideStr(str, tag, low, item.value)
    BY <1>3, WideBytes, Zenon DEF WideStr
  <2> HIDE DEF tag, low, str
  <2>3. Read(3, Len(item.value))
    BY <1>0, <2>1, <2>2, WideRead, Zenon
  <2>4. Known(item)
    BY <1>3 DEF Known
  <2> QED
    BY <2>3, <2>4, Zenon DEF str
<1> QED
  BY <1>0, <1>1, <1>2, <1>3

LEMMA ItemIsRead ==
    ASSUME NEW bytes, NEW end, Readable(bytes, end), NEW off, NEW item \in CodecItem,
           Carries(bytes, off, Codec!BytesOf(item)), off + Len(Codec!BytesOf(item)) <= end
    PROVE  Codec!ReadItems(bytes, off + 1, end) =
              IF Known(item)
              THEN Codec!Over(Codec!ReadItems(bytes, off + Len(Codec!BytesOf(item)) + 1, end),
                              Codec!Single(item.type, item.value))
              ELSE Codec!Nothing
<1>1. PICK before \in {1, 2, 3} :
         Reads(bytes, off, Codec!BytesOf(item), before, item.type,
               IF Known(item) THEN Len(item.value) ELSE -1, item.value)
  BY ItemReads, Zenon
<1>2. item.value \in Seq(Nat)
  BY ItemShapes, Zenon
<1>3. CASE Known(item)
  <2>1. Reads(bytes, off, Codec!BytesOf(item), before, item.type, Len(item.value), item.value)
    BY <1>1, <1>3, Zenon
  <2>2. Codec!ReadItems(bytes, off + 1, end) =
           Codec!Over(Codec!ReadItems(bytes, off + Len(Codec!BytesOf(item)) + 1, end),
                      Codec!Single(item.type, item.value))
    BY <1>2, <2>1, GoesOn
  <2> QED
    BY <1>3, <2>2, Zenon
<1>4. CASE ~Known(item)
  <2>1. Reads(bytes, off, Codec!BytesOf(item), before, item.type, -1, item.value)
    BY <1>1, <1>4, Zenon
  <2>2. Codec!ReadItems(bytes, off + 1, end) = Codec!Nothing
    BY <2>1, Halts, Zenon
  <2> QED
    BY <1>4, <2>2, Zenon
<1> QED
  BY <1>3, <1>4, Zenon

-----------------------------------------------------------------------------

IsFunction(f) == f = [x \in DOMAIN f |-> f[x]]

\* What is read first is kept over what is read later.
LEMMA Merging ==
    ASSUME NEW f, NEW g, NEW h
    PROVE  /\ IsFunction(Codec!Over(f, g))
           /\ Codec!Over(Codec!Over(f, g), h) = Codec!Over(f, Codec!Over(g, h))
           /\ IsFunction(f) => Codec!Over(f, << >>) = f /\ Codec!Over(<< >>, f) = f
<1>1. IsFunction(Codec!Over(f, g))
  BY DEF IsFunction, Codec!Over
<1>2. Codec!Over(Codec!Over(f, g), h) = Codec!Over(f, Codec!Over(g, h))
  BY DEF Codec!Over
<1>3. DOMAIN << >> = {}
  OBVIOUS
<1>4. ASSUME IsFunction(f) PROVE Codec!Over(f, << >>) = f /\ Codec!Over(<< >>, f) = f
  <2>1. /\ Codec!Over(f, << >>) = [x \in DOMAIN f |-> f[x]]
        /\ Codec!Over(<< >>, f) = [x \in DOMAIN f |-> f[x]]
    BY <1>3 DEF Codec!Over
  <2> QED
    BY <1>4, <2>1, Zenon DEF IsFunction
<1> QED
  BY <1>1, <1>2, <1>4

LEMMA ReadingIsFunction ==
    ASSUME NEW bytes, NEW end, Readable(bytes, end), NEW i \in 1..(Len(bytes) + 1)
    PROVE  IsFunction(Codec!ReadItems(bytes, i, end))
<1>1. IsFunction(Codec!Nothing)
  BY DEF Codec!Nothing, IsFunction
<1>2. CASE Codec!Stops(bytes, i, end)
  BY <1>1, <1>2, ReadingUnfolds, Zenon
<1>3. CASE ~Codec!Stops(bytes, i, end)
  <2>1. PICK f, g : Codec!ReadItems(bytes, i, end) = Codec!Over(f, g)
    BY <1>3, ReadingUnfolds
  <2>2. IsFunction(Codec!Over(f, g))
    BY Merging, Zenon
  <2> QED
    BY <2>1, <2>2, Zenon
<1> QED
  BY <1>2, <1>3, Zenon

\* Nothing is read from behind the end.
LEMMA NothingBehind ==
    ASSUME NEW bytes, NEW end, Readable(bytes, end)
    PROVE  Codec!ReadItems(bytes, end + 1, end) = Codec!Nothing
<1>1. end + 1 \in 1..(Len(bytes) + 1) /\ end + 1 > end
  BY DEF Readable
<1>2. Codec!Stops(bytes, end + 1, end)
  BY <1>1, Zenon DEF Codec!Stops
<1> QED
  BY <1>1, <1>2, ReadingUnfolds, Zenon

\* However the frame stands in the bytes, what was written is read from it, then
\* what follows it unless the frame cannot be read to its end.
FrameIsRead(bytes, off, end) ==
    Readable(bytes, end) /\ Carries(bytes, off, frame) /\ off + Len(frame) <= end =>
        Codec!ReadItems(bytes, off + 1, end) =
            IF legible THEN Codec!Over(Codec!ReadItems(bytes, off + Len(frame) + 1, end), codecWritten)
            ELSE codecWritten

CodecInv ==
    /\ header \in Codec!Headers \cup {0} /\ frame \in Seq(Nat) /\ legible \in BOOLEAN
    /\ codecItems \in Nat /\ (codecItems = 0 => legible) /\ (codecItems = 0 \/ frame # << >>)
    /\ IsFunction(codecWritten)
    /\ \A bytes, off, end : FrameIsRead(bytes, off, end)

LEMMA CodecInitInv == Codec!CodecInit => CodecInv
<1> SUFFICES ASSUME Codec!CodecInit PROVE CodecInv
  OBVIOUS
<1>1. /\ header \in Codec!Headers \cup {0} /\ frame = << >> /\ codecWritten = Codec!Nothing
      /\ codecItems = 0 /\ legible = TRUE
  BY DEF Codec!CodecInit
<1>2. ASSUME NEW bytes, NEW off, NEW end,
             Readable(bytes, end), Carries(bytes, off, frame), off + Len(frame) <= end
      PROVE  Codec!ReadItems(bytes, off + 1, end) =
                Codec!Over(Codec!ReadItems(bytes, off + Len(frame) + 1, end), codecWritten)
  <2>1. Len(frame) = 0
    BY <1>1
  <2>2. off + 1 \in 1..(Len(bytes) + 1) /\ off + Len(frame) + 1 = off + 1
    BY <1>2, <2>1 DEF Carries
  <2>3. IsFunction(Codec!ReadItems(bytes, off + 1, end))
    BY <1>2, <2>2, ReadingIsFunction, Zenon
  <2>4. codecWritten = << >>
    BY <1>1 DEF Codec!Nothing
  <2> QED
    BY <2>2, <2>3, <2>4, Merging, Zenon
<1>a. legible
  BY <1>1, Zenon
<1>3. \A bytes, off, end : FrameIsRead(bytes, off, end)
  BY <1>a, <1>2 DEF FrameIsRead
<1>4. IsFunction(codecWritten) /\ frame \in Seq(Nat)
  BY <1>1 DEF Codec!Nothing, IsFunction
<1> QED
  BY <1>1, <1>3, <1>4, Zenon DEF CodecInv

\* A str in front of another stands where both do, and the other behind it.
LEMMA CarriesParts ==
    ASSUME NEW bytes, NEW off, NEW s \in Seq(Nat), NEW t \in Seq(Nat), Carries(bytes, off, s \o t)
    PROVE  /\ Carries(bytes, off, s) /\ Carries(bytes, off + Len(s), t)
           /\ Len(s \o t) = Len(s) + Len(t) /\ Len(s) \in Nat /\ Len(t) \in Nat /\ off \in Nat
<1>1. /\ Len(s) \in Nat /\ Len(t) \in Nat /\ Len(s \o t) = Len(s) + Len(t)
      /\ \A k \in 1..Len(s) : (s \o t)[k] = s[k]
      /\ \A k \in 1..Len(t) : (s \o t)[Len(s) + k] = t[k]
  OBVIOUS
<1> DEFINE str == s \o t
<1>2. /\ off \in Nat /\ Len(bytes) \in Nat /\ off + Len(str) <= Len(bytes)
      /\ \A k \in 1..Len(str) : bytes[off + k] = str[k]
  BY DEF Carries
<1> HIDE DEF str
<1>3. Carries(bytes, off, s)
  <2>1. off + Len(s) <= Len(bytes) /\ \A k \in 1..Len(s) : k \in 1..Len(str)
    BY <1>1, <1>2 DEF str
  <2>2. \A k \in 1..Len(s) : str[k] = s[k]
    BY <1>1 DEF str
  <2> QED
    BY <1>2, <2>1, <2>2, Zenon DEF Carries
<1>4. Carries(bytes, off + Len(s), t)
  <2>1. Len(str) = Len(s) + Len(t) /\ \A k \in 1..Len(t) : str[Len(s) + k] = t[k]
    BY <1>1 DEF str
  <2>2. /\ off + Len(s) \in Nat /\ off + Len(s) + Len(t) <= Len(bytes)
        /\ \A k \in 1..Len(t) : Len(s) + k \in 1..Len(str) /\ off + Len(s) + k = off + (Len(s) + k)
    BY <1>1, <1>2, <2>1
  <2> QED
    BY <1>2, <2>1, <2>2, Zenon DEF Carries
<1> QED
  BY <1>1, <1>2, <1>3, <1>4

LEMMA WriteKeepsReading ==
    ASSUME CodecInv, NEW item \in CodecItem, Codec!Write(item)
    PROVE  \A bytes, off, end : FrameIsRead(bytes, off, end)'
<1> DEFINE str == Codec!BytesOf(item)
           reads(bytes, i, end) == Codec!ReadItems(bytes, i, end)
<1>1. /\ frame' = frame \o str /\ frame \in Seq(Nat) /\ str \in Seq(Nat)
      /\ legible' = (legible /\ Known(item)) /\ legible \in BOOLEAN
      /\ codecWritten' = (IF legible' THEN Codec!Over(Codec!Single(item.type, item.value), codecWritten)
                          ELSE codecWritten)
      /\ IsFunction(codecWritten)
  <2>1. str \in Seq(Nat)
    BY ItemReads, Zenon DEF Reads
  <2> QED
    BY <2>1 DEF CodecInv, Codec!Write, Known
<1> HIDE DEF str
<1>2. ASSUME NEW bytes, NEW off, NEW end,
             Readable(bytes, end), Carries(bytes, off, frame'), off + Len(frame') <= end
      PROVE  reads(bytes, off + 1, end) =
                IF legible' THEN Codec!Over(reads(bytes, off + Len(frame') + 1, end), codecWritten')
                ELSE codecWritten'
  <2>1. /\ Carries(bytes, off, frame) /\ Carries(bytes, off + Len(frame), str)
        /\ Len(frame') = Len(frame) + Len(str)
        /\ Len(frame) \in Nat /\ Len(str) \in Nat /\ off \in Nat /\ end \in Nat
    <3>1. Carries(bytes, off, frame \o str) /\ end \in Nat
      BY <1>1, <1>2 DEF Readable
    <3> QED
      BY <1>1, <3>1, CarriesParts
  <2>2. /\ off + Len(frame) <= end /\ (off + Len(frame)) + Len(str) <= end
        /\ (off + Len(frame)) + Len(str) + 1 = off + Len(frame') + 1
    BY <1>2, <2>1
  <2>3. reads(bytes, off + 1, end) =
           IF legible THEN Codec!Over(reads(bytes, off + Len(frame) + 1, end), codecWritten)
           ELSE codecWritten
    BY <1>2, <2>1, <2>2, Zenon DEF CodecInv, FrameIsRead
  <2>4. reads(bytes, off + Len(frame) + 1, end) =
           IF Known(item)
           THEN Codec!Over(reads(bytes, off + Len(frame') + 1, end), Codec!Single(item.type, item.value))
           ELSE Codec!Nothing
    BY <1>2, <2>1, <2>2, ItemIsRead DEF str
  <2> HIDE DEF reads
  <2>5. CASE ~legible
    BY <1>1, <2>3, <2>5, Zenon
  <2>6. CASE legible /\ Known(item)
    <3>1. reads(bytes, off + 1, end) =
             Codec!Over(Codec!Over(reads(bytes, off + Len(frame') + 1, end),
                                   Codec!Single(item.type, item.value)), codecWritten)
      BY <2>3, <2>4, <2>6, Zenon
    <3>2. codecWritten' = Codec!Over(Codec!Single(item.type, item.value), codecWritten)
      BY <1>1, <2>6, Zenon
    <3>3. legible'
      BY <1>1, <2>6, Zenon
    <3>4. \A f, g, h : Codec!Over(Codec!Over(f, g), h) = Codec!Over(f, Codec!Over(g, h))
      BY Merging
    <3>5. reads(bytes, off + 1, end) =
             Codec!Over(reads(bytes, off + Len(frame') + 1, end), codecWritten')
      BY <3>1, <3>2, <3>4
    <3> QED
      BY <3>3, <3>5, Zenon
  <2>7. CASE legible /\ ~Known(item)
    <3>1. reads(bytes, off + 1, end) = Codec!Over(Codec!Nothing, codecWritten)
      BY <2>3, <2>4, <2>7, Zenon
    <3>2. Codec!Over(Codec!Nothing, codecWritten) = codecWritten
      BY <1>1, Merging, Zenon DEF Codec!Nothing
    <3>3. ~legible' /\ codecWritten' = codecWritten
      BY <1>1, <2>7, Zenon
    <3> QED
      BY <3>1, <3>2, <3>3, Zenon
  <2> QED
    BY <1>1, <2>5, <2>6, <2>7, Zenon
<1> QED
  BY <1>2 DEF FrameIsRead

\* A command's frame is one item with a value of one byte.
LEMMA CommandItem ==
    ASSUME NEW action \in DOMAIN Codec!ValveCode \cup {"read"}
    PROVE  \E type, code \in Nat :
              /\ Codec!EncodeDownlink(action) = Codec!BuildDownlink(<<38, type, code>>)
              /\ PlainTag(type, type) /\ Codec!TypeLength(type) = 1
              /\ (IF action = "read" THEN Codec!Single(32, <<1>>)
                  ELSE Codec!Single(31, <<Codec!ValveCode[action]>>)) = Codec!Single(type, <<code>>)
<1>1. CASE action = "read"
  <2>1. Codec!EncodeDownlink(action) = Codec!BuildDownlink(<<38, 32, 1>>)
    BY <1>1 DEF Codec!EncodeDownlink
  <2>2. Codec!TypeLength(32) = 1
    BY DEF Codec!TypeLength
  <2>3. PlainTag(32, 32) /\ 32 \in Nat /\ 1 \in Nat
    BY DEF PlainTag
  <2> QED
    BY <1>1, <2>1, <2>2, <2>3
<1>2. CASE action # "read"
  <2>1. Codec!EncodeDownlink(action) = Codec!BuildDownlink(<<38, 31, Codec!ValveCode[action]>>)
    BY <1>2 DEF Codec!EncodeDownlink
  <2>2. Codec!TypeLength(31) = 1
    BY DEF Codec!TypeLength
  <2>3. PlainTag(31, 31) /\ 31 \in Nat /\ Codec!ValveCode[action] \in Nat
    BY <1>2 DEF PlainTag, Codec!ValveCode
  <2> QED
    BY <1>2, <2>1, <2>2, <2>3
<1> QED
  BY <1>1, <1>2

\* A frame of bytes with its checksum behind.
LEMMA WithChecksum ==
    ASSUME NEW S, NEW bytes \in Seq(S)
    PROVE  LET sent == Codec!BuildDownlink(bytes)
           IN  /\ Len(sent) = Len(bytes) + 1 /\ Codec!Front(sent) = bytes
               /\ Codec!Last(sent) = Codec!Checksum(bytes)
               /\ \A k \in 1..Len(bytes) : sent[k] = bytes[k]
               /\ \E T : sent \in Seq(T)
<1> DEFINE c == Codec!Checksum(bytes)
           T == S \cup {c}
<1>1. bytes \in Seq(T) /\ c \in T
  <2>1. S \subseteq T
    OBVIOUS
  <2> QED
    BY <2>1, SeqMonotonic
<1>2. Codec!BuildDownlink(bytes) = Append(bytes, c)
  BY DEF Codec!BuildDownlink
<1> HIDE DEF c, T
<1>3. /\ Append(bytes, c) \in Seq(T) /\ Len(Append(bytes, c)) = Len(bytes) + 1
      /\ \A k \in 1..Len(bytes) : Append(bytes, c)[k] = bytes[k]
      /\ Append(bytes, c)[Len(bytes) + 1] = c
      /\ Len(bytes) \in Nat
  BY <1>1
<1>4. SubSeq(Append(bytes, c), 1, Len(Append(bytes, c)) - 1) = bytes
  <2> DEFINE sent == Append(bytes, c)
             cut == SubSeq(sent, 1, Len(sent) - 1)
  <2>1. Len(sent) - 1 = Len(bytes) /\ sent \in Seq(T)
    BY <1>3
  <2>2. cut \in Seq(T) /\ Len(cut) = Len(bytes) /\ \A k \in 1..Len(bytes) : cut[k] = sent[k]
    BY <1>3, <2>1
  <2> QED
    BY <1>1, <1>3, <2>2
<1> QED
  BY <1>2, <1>3, <1>4 DEF Codec!Front, Codec!Last, c

LEMMA OneAndOne == ASSUME NEW x \in Nat, NEW y \in Nat PROVE <<x, y>> = <<x>> \o <<y>>
<1>1. /\ <<x, y>> \in Seq(Nat) /\ Len(<<x, y>>) = 2 /\ <<x, y>>[1] = x /\ <<x, y>>[2] = y
  OBVIOUS
<1>2. /\ <<x>> \o <<y>> \in Seq(Nat) /\ Len(<<x>> \o <<y>>) = 2
      /\ (<<x>> \o <<y>>)[1] = x /\ (<<x>> \o <<y>>)[2] = y
  OBVIOUS
<1> DEFINE s == <<x, y>>
           t == <<x>> \o <<y>>
<1>3. s \in Seq(Nat) /\ t \in Seq(Nat) /\ Len(s) = 2 /\ Len(t) = 2 /\ s[1] = t[1] /\ s[2] = t[2]
  BY <1>1, <1>2, Zenon
<1> HIDE DEF s, t
<1>4. Len(s) = Len(t) /\ \A i \in 1..Len(s) : s[i] = t[i]
  <2>1. \A i \in 1..2 : i = 1 \/ i = 2
    OBVIOUS
  <2> QED
    BY <1>3, <2>1, Zenon
<1>5. s = t
  BY <1>3, <1>4, SeqEqual, Zenon
<1> QED
  BY <1>5, Zenon DEF s, t

LEMMA CommandKeepsReading ==
    ASSUME CodecInv, NEW action \in DOMAIN Codec!ValveCode \cup {"read"}, Codec!Command(action)
    PROVE  /\ header' \in Codec!Headers /\ frame' \in Seq(Nat) /\ frame' # << >>
           /\ IsFunction(codecWritten') /\ legible' = legible /\ codecItems' \in Nat
           /\ codecItems = 0 /\ \A bytes, off, end : FrameIsRead(bytes, off, end)'
<1>1. /\ codecItems = 0 /\ codecItems' = MaxItems /\ legible' = legible
      /\ header' = Codec!EncodeDownlink(action)[1]
      /\ frame' = Tail(Codec!Front(Codec!EncodeDownlink(action)))
      /\ codecWritten' = IF action = "read" THEN Codec!Single(32, <<1>>)
                         ELSE Codec!Single(31, <<Codec!ValveCode[action]>>)
  BY DEF Codec!Command
<1>2. PICK type \in Nat, code \in Nat :
         /\ Codec!EncodeDownlink(action) = Codec!BuildDownlink(<<38, type, code>>)
         /\ PlainTag(type, type) /\ Codec!TypeLength(type) = 1
         /\ (IF action = "read" THEN Codec!Single(32, <<1>>)
             ELSE Codec!Single(31, <<Codec!ValveCode[action]>>)) = Codec!Single(type, <<code>>)
  BY CommandItem
<1>3. codecWritten' = Codec!Single(type, <<code>>)
  BY <1>1, <1>2, Zenon
<1>4. header' = 38 /\ frame' = <<type, code>>
  <2> DEFINE bytes == <<38, type, code>>
  <2>1. bytes \in Seq(Nat) /\ bytes[1] = 38 /\ 1 \in 1..Len(bytes) /\ Tail(bytes) = <<type, code>>
    OBVIOUS
  <2> HIDE DEF bytes
  <2>2. /\ Codec!Front(Codec!BuildDownlink(bytes)) = bytes
        /\ \A k \in 1..Len(bytes) : Codec!BuildDownlink(bytes)[k] = bytes[k]
    BY <2>1, WithChecksum, Zenon
  <2>3. Codec!EncodeDownlink(action) = Codec!BuildDownlink(bytes)
    BY <1>2 DEF bytes
  <2> QED
    BY <1>1, <2>1, <2>2, <2>3, Zenon
<1>5. frame' \in Seq(Nat) /\ frame' # << >> /\ header' \in Codec!Headers
  BY <1>4 DEF Codec!Headers
<1>6. IsFunction(codecWritten')
  BY <1>3 DEF IsFunction, Codec!Single
<1>7. legible
  BY <1>1 DEF CodecInv
<1>c. <<code>> \in Seq(Nat) /\ Len(<<code>>) = 1
  OBVIOUS
<1>8. PlainStr(frame', type, <<code>>)
  BY <1>4, OneAndOne, Zenon DEF PlainStr
<1>9. ASSUME NEW bytes, NEW off, NEW end,
             Readable(bytes, end), Carries(bytes, off, frame'), off + Len(frame') <= end
      PROVE  Codec!ReadItems(bytes, off + 1, end) =
                Codec!Over(Codec!ReadItems(bytes, off + Len(frame') + 1, end), codecWritten')
  <2>1. Reads(bytes, off, frame', 1, type, Len(<<code>>), <<code>>)
    <3>1. Reads(bytes, off, frame', 1, type, Codec!TypeLength(type), <<code>>)
      BY <1>2, <1>8, <1>c, PlainRead, Zenon
    <3> QED
      BY <1>2, <1>c, <3>1, Zenon
  <2> DEFINE value == <<code>>
             str == frame'
  <2>2. value \in Seq(Nat) /\ Reads(bytes, off, str, 1, type, Len(value), value)
    BY <1>c, <2>1, Zenon
  <2>3. Carries(bytes, off, str) /\ off + Len(str) <= end
    BY <1>9, Zenon
  <2>4. codecWritten' = Codec!Single(type, value)
    BY <1>3, Zenon
  <2> HIDE DEF value, str
  <2>5. Codec!ReadItems(bytes, off + 1, end) =
           Codec!Over(Codec!ReadItems(bytes, off + Len(str) + 1, end), Codec!Single(type, value))
    BY <1>9, <2>2, <2>3, GoesOn
  <2> QED
    BY <2>4, <2>5, Zenon DEF str
<1>b. legible'
  BY <1>1, <1>7, Zenon
<1>a. \A bytes, off, end : FrameIsRead(bytes, off, end)'
  BY <1>b, <1>9 DEF FrameIsRead
<1> QED
  BY <1>1, <1>5, <1>6, <1>a, FramesAreFinite

LEMMA CodecNextInv == ASSUME CodecInv, [Codec!CodecNext]_codecPart PROVE CodecInv'
<1>1. CASE UNCHANGED codecPart
  <2>1. /\ header' = header /\ frame' = frame /\ codecWritten' = codecWritten
        /\ codecItems' = codecItems /\ legible' = legible
    BY <1>1 DEF codecPart
  <2>2. \A bytes, off, end : FrameIsRead(bytes, off, end)'
    BY <2>1 DEF CodecInv, FrameIsRead
  <2> QED
    BY <2>1, <2>2, Zenon DEF CodecInv, IsFunction
<1>2. ASSUME NEW item \in CodecItem, Codec!Write(item) PROVE CodecInv'
  <2>1. \A bytes, off, end : FrameIsRead(bytes, off, end)'
    BY <1>2, WriteKeepsReading
  <2>2. /\ header' = header /\ codecItems' = codecItems + 1 /\ codecItems \in Nat
        /\ frame' = frame \o Codec!BytesOf(item) /\ frame \in Seq(Nat)
        /\ legible' \in BOOLEAN
        /\ codecWritten' = (IF legible' THEN Codec!Over(Codec!Single(item.type, item.value), codecWritten)
                            ELSE codecWritten)
        /\ header \in Codec!Headers \cup {0} /\ IsFunction(codecWritten)
    BY <1>2 DEF CodecInv, Codec!Write
  <2>3. Codec!BytesOf(item) \in Seq(Nat) /\ Len(Codec!BytesOf(item)) \in Nat \ {0}
    BY ItemReads, Zenon DEF Reads
  <2>4. frame' \in Seq(Nat) /\ frame' # << >> /\ codecItems' \in Nat /\ codecItems' # 0
    BY <2>2, <2>3
  <2>5. IsFunction(codecWritten')
    BY <2>2, Merging
  <2> QED
    BY <2>1, <2>2, <2>4, <2>5, Zenon DEF CodecInv
<1>3. ASSUME NEW action \in DOMAIN Codec!ValveCode \cup {"read"}, Codec!Command(action) PROVE CodecInv'
  <2>1. legible
    BY <1>3, CommandKeepsReading DEF CodecInv
  <2>2. legible' = legible /\ legible \in BOOLEAN
    BY <1>3, CommandKeepsReading DEF CodecInv
  <2> QED
    BY <1>3, <2>1, <2>2, CommandKeepsReading DEF CodecInv
<1> QED
  BY <1>1, <1>2, <1>3 DEF Codec!CodecNext

\* A frame that ends where the reading ends says what was written.
LEMMA WholeFrame ==
    ASSUME CodecInv, NEW bytes, NEW off, NEW end, Readable(bytes, end),
           Carries(bytes, off, frame), end = off + Len(frame)
    PROVE  Codec!ReadItems(bytes, off + 1, end) = codecWritten
<1>1. end \in Nat /\ off \in Nat /\ off + Len(frame) <= end
  BY DEF Readable, Carries
<1>2. Codec!ReadItems(bytes, off + 1, end) =
         IF legible THEN Codec!Over(Codec!ReadItems(bytes, end + 1, end), codecWritten)
         ELSE codecWritten
  BY <1>1, Zenon DEF CodecInv, FrameIsRead
<1>3. Codec!ReadItems(bytes, end + 1, end) = << >>
  BY NothingBehind, Zenon DEF Codec!Nothing
<1>4. Codec!Over(<< >>, codecWritten) = codecWritten
  BY Merging, Zenon DEF CodecInv
<1> QED
  BY <1>2, <1>3, <1>4, Zenon

LEMMA WithoutHeader ==
    ASSUME CodecInv, codecItems > 0, header = 0, frame[1] \notin Codec!Headers
    PROVE  Codec!DecodeBytes(Codec!Sent).read = codecWritten
<1>1. frame \in Seq(Nat) /\ frame # << >>
  BY DEF CodecInv
<1>2. Readable(frame, Len(frame)) /\ Carries(frame, 0, frame) /\ Len(frame) = 0 + Len(frame)
  <2>1. Len(frame) \in Nat /\ \A k \in 1..Len(frame) : frame[k] \in Nat
    BY <1>1
  <2> QED
    BY <1>1, <2>1 DEF Readable, Carries
<1>3. Codec!ReadItems(frame, 0 + 1, Len(frame)) = codecWritten
  BY <1>2, WholeFrame, Zenon
<1>4. 0 + 1 = 1
  OBVIOUS
<1>5. Codec!DecodeBytes(frame).read = Codec!ReadItems(frame, 1, Len(frame))
  BY <1>1 DEF Codec!DecodeBytes
<1>6. Codec!Sent = frame
  BY DEF Codec!Sent
<1> QED
  BY <1>3, <1>4, <1>5, <1>6, Zenon

LEMMA WithHeader ==
    ASSUME CodecInv, codecItems > 0, header # 0
    PROVE  /\ Codec!DecodeBytes(Codec!Sent).read = codecWritten
           /\ Codec!DecodeBytes(Codec!Sent).checksumOk
           /\ Len(Codec!Sent) \in Nat /\ Len(Codec!Sent) > 1 /\ Codec!Sent[1] = header
<1> DEFINE plain == <<header>> \o frame
           sent == Codec!BuildDownlink(plain)
<1>1. /\ frame \in Seq(Nat) /\ header \in Codec!Headers /\ header \in Nat
  BY DEF CodecInv, Codec!Headers
<1>2. /\ plain \in Seq(Nat) /\ Len(plain) = 1 + Len(frame) /\ plain[1] = header
      /\ \A k \in 1..Len(frame) : plain[1 + k] = frame[k]
  BY <1>1
<1>3. Len(frame) \in Nat /\ 1 + Len(frame) \in Nat
  BY <1>1
<1> HIDE DEF plain
<1>4. /\ Len(sent) = Len(plain) + 1 /\ Codec!Front(sent) = plain
      /\ Codec!Last(sent) = Codec!Checksum(plain)
      /\ \A k \in 1..Len(plain) : sent[k] = plain[k]
      /\ \E T : sent \in Seq(T)
  BY <1>2, WithChecksum
<1>5. Codec!Sent = sent
  BY Zenon DEF Codec!Sent, plain
<1> HIDE DEF sent
<1>6. /\ Len(sent) \in Nat /\ Len(sent) > 1 /\ Len(sent) - 1 = 1 + Len(frame)
      /\ 1 \in 1..Len(plain)
  <2>1. frame # << >> => Len(frame) # 0
    BY <1>1
  <2>2. frame # << >>
    BY DEF CodecInv
  <2> QED
    BY <1>2, <1>3, <1>4, <2>1, <2>2
<1>7. sent[1] = header /\ sent[1] \in Codec!Headers
  BY <1>1, <1>2, <1>4, <1>6, Zenon
<1>8. sent # << >>
  BY <1>6
<1>9. Readable(sent, 1 + Len(frame))
  <2>1. \A k \in 1..(1 + Len(frame)) : plain[k] \in Nat
    BY <1>2
  <2>2. \A k \in 1..(1 + Len(frame)) : sent[k] \in Nat
    BY <1>2, <1>4, <2>1, Zenon
  <2>3. 1 + Len(frame) \in 0..Len(sent)
    BY <1>3, <1>6
  <2> QED
    BY <1>4, <2>2, <2>3, Zenon DEF Readable
<1>a. Carries(sent, 1, frame)
  <2>1. \A k \in 1..Len(frame) : 1 + k \in 1..Len(plain)
    BY <1>2, <1>3
  <2>2. \A k \in 1..Len(frame) : sent[1 + k] = frame[k]
    BY <1>2, <1>4, <2>1, Zenon
  <2>3. 1 \in Nat /\ Len(sent) \in Nat /\ 1 + Len(frame) <= Len(sent)
    BY <1>3, <1>6
  <2> QED
    BY <2>2, <2>3, Zenon DEF Carries
<1>b. Codec!ReadItems(sent, 1 + 1, Len(sent) - 1) = codecWritten
  BY <1>6, <1>9, <1>a, WholeFrame, Zenon
<1>c. 1 + 1 = 2
  OBVIOUS
<1>d. /\ Codec!DecodeBytes(sent).read = Codec!ReadItems(sent, 2, Len(sent) - 1)
      /\ Codec!DecodeBytes(sent).checksumOk
  BY <1>4, <1>6, <1>7, <1>8 DEF Codec!DecodeBytes
<1> QED
  BY <1>5, <1>6, <1>7, <1>b, <1>c, <1>d, Zenon

\* The base64 of a frame with a header begins with a J.
LEMMA HeaderIsNoHex ==
    ASSUME NEW bytes, Len(bytes) \in Nat, Len(bytes) > 1, bytes[1] \in Codec!Headers
    PROVE  ~Codec!LooksHex(bytes)
<1>1. bytes[1] \div 4 = 9
  BY DEF Codec!Headers
<1>2. Codec!HexDigit(9) = -1
  BY DEF Codec!HexDigit
<1>3. ASSUME Len(bytes) % 3 = 0
      PROVE  1 \in DOMAIN Codec!Sextets(bytes) /\ Codec!Sextets(bytes)[1] = 9
  <2>1. 1 \in 1..((Len(bytes) \div 3) * 4)
    BY <1>3
  <2>2. 1 % 4 = 1 /\ 3 * ((1 - 1) \div 4) + 1 = 1
    OBVIOUS
  <2> QED
    BY <1>1, <2>1, <2>2 DEF Codec!Sextets
<1> QED
  BY <1>2, <1>3, Zenon DEF Codec!LooksHex

LEMMA CodecReadsBack == ASSUME CodecInv PROVE FramesReadBack
<1> SUFFICES ASSUME codecItems > 0, header = 0 => frame[1] \notin Codec!Headers
             PROVE  /\ Codec!DecodeBytes(Codec!Sent).read = codecWritten
                    /\ header # 0 => Codec!DecodeBytes(Codec!Sent).checksumOk
                    /\ Codec!PlatformDecode(Codec!Sent) = Codec!PlatformFields(codecWritten)
                    /\ Codec!ChirpStackDecode(Codec!Sent) = Codec!ChirpStackFields(codecWritten)
                    /\ \A format \in {"hex", "base64"} :
                          \/ Codec!DecodeMessageRow(Codec!Nothing, format, Codec!Sent) =
                                Codec!CommonFields(codecWritten)
                          \/ format = "base64" /\ header = 0 /\ Codec!LooksHex(Codec!Sent)
  BY Zenon DEF FramesReadBack, Codec!FramesReadBack
<1>1. Codec!DecodeBytes(Codec!Sent).read = codecWritten
  BY WithHeader, WithoutHeader, Zenon
<1>2. header # 0 => Codec!DecodeBytes(Codec!Sent).checksumOk
  BY WithHeader, Zenon
<1>3. header # 0 => ~Codec!LooksHex(Codec!Sent)
  <2>1. header \in Codec!Headers \cup {0}
    BY DEF CodecInv
  <2> QED
    BY <2>1, WithHeader, HeaderIsNoHex
<1>4. Codec!PlatformDecode(Codec!Sent) = Codec!PlatformFields(codecWritten)
  BY <1>1, Zenon DEF Codec!PlatformDecode
<1>5. Codec!ChirpStackDecode(Codec!Sent) = Codec!ChirpStackFields(codecWritten)
  BY <1>1, Zenon DEF Codec!ChirpStackDecode
<1>6. ASSUME NEW format \in {"hex", "base64"},
             ~(format = "base64" /\ header = 0 /\ Codec!LooksHex(Codec!Sent))
      PROVE  Codec!DecodeMessageRow(Codec!Nothing, format, Codec!Sent) = Codec!CommonFields(codecWritten)
  <2>1. ~(format = "base64" /\ Codec!LooksHex(Codec!Sent))
    BY <1>3, <1>6, Zenon
  <2>2. Codec!Normalize(format, Codec!Sent) = Codec!Sent
    BY <2>1, Zenon DEF Codec!Normalize
  <2>3. Codec!ConsoleDecode(Codec!Sent) = Codec!CommonFields(codecWritten)
    BY <1>1, Zenon DEF Codec!ConsoleDecode
  <2>4. Codec!DecodeMessageRow(Codec!Nothing, format, Codec!Sent) =
           Codec!ConsoleDecode(Codec!Normalize(format, Codec!Sent))
    BY Zenon DEF Codec!DecodeMessageRow
  <2> QED
    BY <2>2, <2>3, <2>4, Zenon
<1> QED
  BY <1>1, <1>2, <1>4, <1>5, <1>6, Zenon

\* What a meter, or a command, wrote into a frame is what the three copies of the
\* codec read from it, however many items of whatever type and length.
THEOREM FramesAreReadBack == ConsoleSpec => []FramesReadBack
<1> DEFINE Inv == CodecInv
<1>1. ConsoleInit => Inv
  BY CodecInitInv DEF ConsoleInit
<1>2. Inv /\ [ConsoleNext]_<<part, parts>> => Inv'
  BY CodecNextInv DEF ConsoleNext, parts
<1>3. Inv => FramesReadBack
  BY CodecReadsBack, Zenon
<1> QED
  BY <1>1, <1>2, <1>3, ConsoleSafety, PTL
=============================================================================
