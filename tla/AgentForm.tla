------------------------------ MODULE AgentForm ------------------------------
(***************************************************************************)
(* The form of an agent (frontend/src/features/agents/components/          *)
(* AgentForm.tsx), which chooses a model of CodeAgent or of an LLM         *)
(* provider while the list of providers is still being loaded.             *)
(***************************************************************************)
EXTENDS Integers, Sequences

CONSTANTS
    Providers,   \* 1..n, in the order of the list
    Models,      \* models of providers
    CodeModels,  \* sequence of the models CODEAGENT_MODEL_OPTIONS
    OldModel,    \* a model of CodeAgent that is no longer offered
    None,        \* nothing selected, no provider
    MaxChoices   \* bound on what the user does to the fields

VARIABLES
    creating,  \* mode
    catalog,   \* what the server answers to the request for the providers
    list,      \* useLlmProviders: providers and loading
    draft,     \* the draft on the server
    initial,   \* the draft that was loaded
    payload,   \* the draft that was submitted
    pick,      \* the selection: source, code, provider, model
    texts,     \* whether name and system prompt are filled
    view,      \* systemPromptView
    error,     \* errorField
    stage,     \* "closed", "editing", "saving"
    chosen,    \* what the user has chosen by hand
    choices

Range(s) == {s[i] : i \in DOMAIN s}

\* What the server may say of a provider.
Entry == [enabled : BOOLEAN,
          models  : {<<>>} \cup {<<m>> : m \in Models} \cup
                    {p \in Models \X Models : p[1] # p[2]}]

NoList == [p \in Providers |-> [enabled |-> FALSE, models |-> <<>>]]
NoDraft == [provider |-> None, model |-> None]

-----------------------------------------------------------------------------
(* What the form derives from the list *)

Enabled(l)  == {p \in Providers : l.providers[p].enabled}
First(S)    == CHOOSE p \in S : \A q \in S : p <= q
IsListed(l, p) == p \in Enabled(l)
ModelsOf(l, p) == IF IsListed(l, p) THEN l.providers[p].models ELSE <<>>

UnavailableCodeAgentModel ==
    ~creating /\ pick.source = "codeagent" /\ pick.code \notin Range(CodeModels)
UnavailableDraftProvider ==
    /\ ~creating /\ pick.source = "provider" /\ ~list.loading
    /\ pick.provider # None /\ ~IsListed(list, pick.provider)

\* Mutant: a model is taken for available if its provider is.
NoUnavailableModel == FALSE

UnavailableProviderModel ==
    /\ ~creating /\ pick.source = "provider" /\ IsListed(list, pick.provider)
    /\ pick.model # None /\ ModelsOf(list, pick.provider) # <<>>
    /\ pick.model \notin Range(ModelsOf(list, pick.provider))

ProviderSaveBlocked ==
    /\ pick.source = "provider"
    /\ \/ list.loading \/ UnavailableDraftProvider
       \/ ~IsListed(list, pick.provider) \/ ModelsOf(list, pick.provider) = <<>>

SaveBlocked == ProviderSaveBlocked \/ UnavailableCodeAgentModel \/ UnavailableProviderModel

-----------------------------------------------------------------------------
(* Effects: they run after every change of the selection or of the list. *)

\* Mutant: a provider that is not listed is replaced.
AutoProviderReplaces(s, l) ==
    IF s.source = "provider" /\ Enabled(l) # {} /\ ~IsListed(l, s.provider)
    THEN [s EXCEPT !.provider = First(Enabled(l))] ELSE s

AutoProvider(s, l) ==
    IF s.source = "provider" /\ Enabled(l) # {} /\ s.provider = None
    THEN [s EXCEPT !.provider = First(Enabled(l))] ELSE s

AutoModel(s, l) ==
    IF s.source = "provider" /\ ModelsOf(l, s.provider) # <<>> /\ s.model = None
    THEN [s EXCEPT !.model = Head(ModelsOf(l, s.provider))] ELSE s

AutoSelect(s, l) == AutoModel(AutoProvider(s, l), l)

-----------------------------------------------------------------------------

\* The draft may refer to what is no longer there.
Drafts == [provider : Providers, model : Models]
          \cup [provider : {None}, model : Range(CodeModels) \cup {OldModel}]

\* The hydrating effect.
Hydrate(d) ==
    [source   |-> IF d.provider # None THEN "provider" ELSE "codeagent",
     code     |-> IF d.provider # None THEN Head(CodeModels) ELSE d.model,
     provider |-> d.provider,
     model    |-> IF d.provider # None THEN d.model ELSE None]

AgentOpened ==
    /\ creating \in BOOLEAN
    /\ catalog \in [Providers -> Entry]
    /\ list = [providers |-> NoList, loading |-> TRUE]
    /\ draft \in IF creating THEN {NoDraft} ELSE Drafts
    /\ initial = draft /\ payload = None
    /\ pick = Hydrate(IF creating THEN [draft EXCEPT !.model = Head(CodeModels)] ELSE draft)
    /\ texts = [name |-> ~creating, prompt |-> TRUE]
    /\ view = IF creating THEN "edit" ELSE "preview"
    /\ error = "no" /\ stage = "editing" /\ chosen = {} /\ choices = 0

\* The form is not open.
AgentClosed ==
    /\ creating = TRUE /\ catalog = NoList /\ list = [providers |-> NoList, loading |-> TRUE]
    /\ draft = NoDraft /\ initial = NoDraft /\ payload = None
    /\ pick = Hydrate([NoDraft EXCEPT !.model = Head(CodeModels)])
    /\ texts = [name |-> FALSE, prompt |-> TRUE] /\ view = "edit"
    /\ error = "no" /\ stage = "closed" /\ chosen = {} /\ choices = 0

\* useLlmProviders: the list comes, or the request fails.
ProvidersCome ==
    /\ list.loading /\ stage # "closed"
    /\ list' \in [providers : {catalog, NoList}, loading : {FALSE}]
    /\ pick' = AutoSelect(pick, list')
    /\ UNCHANGED <<creating, catalog, draft, initial, payload, texts, view, error, stage, chosen,
                   choices>>

Choose(s, what) ==
    /\ stage # "closed" /\ choices < MaxChoices
    /\ choices' = choices + 1
    /\ chosen' = chosen \cup what
    /\ pick' = AutoSelect(s, list)
    /\ UNCHANGED <<creating, catalog, list, draft, initial, payload, texts, view, error, stage>>

ChooseSource ==
    \E s \in {"codeagent", "provider"} \ {pick.source} : Choose([pick EXCEPT !.source = s], {})

ChooseCodeModel ==
    /\ pick.source = "codeagent"
    /\ \E m \in Range(CodeModels) \ {pick.code} : Choose([pick EXCEPT !.code = m], {"code"})

ChooseProvider ==
    /\ pick.source = "provider" /\ ~list.loading
    /\ \E p \in Enabled(list) \ {pick.provider} :
         Choose([pick EXCEPT !.provider = p,
                             !.model = IF ModelsOf(list, p) = <<>> THEN None
                                       ELSE Head(ModelsOf(list, p))],
                {"provider", "model"})

ChooseModel ==
    /\ pick.source = "provider"
    /\ \E m \in Range(ModelsOf(list, pick.provider)) \ {pick.model} :
         Choose([pick EXCEPT !.model = m], {"model"})

\* Filling or emptying a text; the prompt can be edited in its edit view only.
EditTexts ==
    /\ stage # "closed" /\ choices < MaxChoices
    /\ choices' = choices + 1
    /\ \/ texts' = [texts EXCEPT !.name = ~@] /\ UNCHANGED view
       \/ view = "edit" /\ texts' = [texts EXCEPT !.prompt = ~@] /\ UNCHANGED view
       \/ view' = (IF view = "edit" THEN "preview" ELSE "edit") /\ UNCHANGED texts
    /\ UNCHANGED <<creating, catalog, list, draft, initial, payload, pick, error, stage, chosen>>

\* The servers, model configuration and tools of the draft, which the form does
\* not show, are always sent empty and left out here.
BuildAgentDraftPayload ==
    [provider |-> IF pick.source = "provider" THEN pick.provider ELSE None,
     model    |-> IF pick.source = "provider" THEN pick.model ELSE pick.code]

\* handleSubmit; the button is disabled while a save is pending or blocked.
SubmitInvalid ==
    /\ stage = "editing" /\ ~SaveBlocked
    /\ ~texts.name \/ ~texts.prompt
    /\ error' = IF ~texts.name THEN "display_name" ELSE "system_prompt"
    /\ view' = IF ~texts.name THEN view ELSE "edit"
    /\ UNCHANGED <<creating, catalog, list, draft, initial, payload, pick, texts, stage, chosen,
                   choices>>

SubmitAgent ==
    /\ stage = "editing" /\ ~SaveBlocked
    /\ texts.name /\ texts.prompt
    /\ error' = "no" /\ stage' = "saving"
    /\ payload' = BuildAgentDraftPayload
    /\ UNCHANGED <<creating, catalog, list, draft, initial, pick, texts, view, chosen, choices>>

\* The draft is saved and the page left; or the call fails, before or after the
\* server has taken the draft.
AgentSaved ==
    /\ stage = "saving"
    /\ \/ draft' = payload /\ stage' = "closed"
       \/ draft' \in {draft, payload} /\ stage' = "editing"
    /\ UNCHANGED <<creating, catalog, list, initial, payload, pick, texts, view, error,
                   chosen, choices>>

CancelAgent ==
    /\ stage # "closed" /\ stage' = "closed"
    /\ UNCHANGED <<creating, catalog, list, draft, initial, payload, pick, texts, view, error,
                   chosen, choices>>

AgentStep == \/ ProvidersCome \/ ChooseSource \/ ChooseCodeModel \/ ChooseProvider \/ ChooseModel
        \/ EditTexts \/ SubmitInvalid \/ SubmitAgent \/ AgentSaved \/ CancelAgent

-----------------------------------------------------------------------------
(* Properties *)

\* The shape of the variables of the form.
AgentTypeOK ==
    /\ pick.source \in {"codeagent", "provider"}
    /\ pick.code \in Range(CodeModels) \cup {OldModel}
    /\ pick.provider \in Providers \cup {None} /\ pick.model \in Models \cup {None}
    /\ draft \in Drafts \cup {NoDraft}
    /\ stage \in {"closed", "editing", "saving"}
    /\ error \in {"no", "display_name", "system_prompt"}

\* What the draft refers to stays selected until the user chooses something else,
\* whenever the providers come and whatever they are: the automatic selection only
\* fills an empty one, and never hides that a reference is not available.
DraftStaysSelected ==
    ~creating =>
        /\ initial.provider # None /\ "provider" \notin chosen
             => pick.provider = initial.provider
        /\ initial.provider # None /\ "model" \notin chosen => pick.model = initial.model
        /\ initial.provider = None /\ "code" \notin chosen => pick.code = initial.model

\* A draft that the form submits refers to an enabled provider of the list it has
\* loaded and to one of that provider's models, or to a model of CodeAgent that is
\* offered, also if the user has left what was loaded as it was.
SavedIsAvailable ==
    payload # None =>
        IF payload.provider = None THEN payload.model \in Range(CodeModels)
        ELSE payload.model \in Range(ModelsOf(list, payload.provider))

-----------------------------------------------------------------------------
(* What makes them inductive *)

Picks == [source : {"codeagent", "provider"}, code : Range(CodeModels) \cup {OldModel},
          provider : Providers \cup {None}, model : Models \cup {None}]

\* Nothing is listed until the providers have come. A draft that is edited exists, and
\* what is submitted is a draft.
FormInv ==
    /\ pick \in Picks /\ creating \in BOOLEAN
    /\ catalog \in [Providers -> Entry]
    /\ list \in [providers : {catalog, NoList}, loading : BOOLEAN]
    /\ list.loading => list.providers = NoList
    /\ ~creating => initial \in Drafts
    /\ payload # None => payload \in Drafts /\ (payload.provider # None => ~list.loading)
    /\ stage = "saving" => payload \in Drafts

\* The effects have filled what is empty; a new agent refers to nothing that is not offered.
SelectionInv ==
    /\ pick.source = "provider" /\ ModelsOf(list, pick.provider) # <<>> => pick.model # None
    /\ creating => /\ pick.code \in Range(CodeModels)
                   /\ pick.model # None => pick.model \in Range(ModelsOf(list, pick.provider))

AgentInv == AgentTypeOK /\ FormInv /\ SelectionInv /\ DraftStaysSelected /\ SavedIsAvailable

=============================================================================
