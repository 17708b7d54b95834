---------------------------- MODULE Forms_proofs ----------------------------
(***************************************************************************)
(* Proofs about the configuration forms: what the form of an agent selects *)
(* and submits (AgentInv of AgentForm), and what a save of the forms of an *)
(* MCP server and of an LLM provider does to the row (SentInv of           *)
(* ConfigForms).                                                           *)
(***************************************************************************)
EXTENDS Forms, WellFoundedInduction, TLAPS

-----------------------------------------------------------------------------
(* The list of providers *)

\* A set of providers has a first.
LEMMA FirstIn ==
    ASSUME NEW S, S \subseteq Providers, S # {}
    PROVE  First(S) \in S
<1>1. PICK R : R = {s \in Nat \X Nat : s[1] < s[2]}  OBVIOUS
<1>2. IsWellFoundedOn(R, Nat)  BY <1>1, NatLessThanWellFounded DEF OpToRel
<1>3. S \subseteq Nat  BY AgentAssumption
<1>4. PICK m \in S : \A y \in S : ~(<<y, m>> \in R)  BY <1>2, <1>3, WFMin
<1>5. ASSUME NEW y \in S PROVE m <= y
  <2>1. y \in Nat /\ m \in Nat  BY <1>3
  <2>2. ~(y < m)  BY <1>1, <1>4, <2>1
  <2> QED  BY <2>1, <2>2
<1> QED  BY <1>5 DEF First

\* The models of a provider.
LEMMA EntryShape ==
    ASSUME NEW e \in Entry, NEW ms, ms = e.models
    PROVE  /\ ms \in Seq(Models) /\ Range(ms) \subseteq Models
           /\ ms # <<>> => Head(ms) \in Range(ms)
<1>1. ms \in Seq(Models)
  <2>1. CASE ms = <<>>  BY <2>1
  <2>2. CASE \E m \in Models : ms = <<m>>  BY <2>2
  <2>3. CASE ms \in Models \X Models
    <3>1. PICK m \in Models, n \in Models : ms = <<m, n>>  BY <2>3
    <3>2. <<m, n>> \in Seq(Models)  OBVIOUS
    <3> QED  BY <3>1, <3>2
  <2> QED  BY <2>1, <2>2, <2>3 DEF Entry
<1>2. Range(ms) \subseteq Models  BY <1>1 DEF Range
<1>3. ms # <<>> => Head(ms) \in Range(ms)  BY <1>1 DEF Range
<1> QED  BY <1>1, <1>2, <1>3

\* What the form derives from a list of providers.
Lists == [providers : [Providers -> Entry], loading : BOOLEAN]

LEMMA ListShape ==
    ASSUME NEW l \in Lists
    PROVE  /\ Enabled(l) \subseteq Providers /\ ModelsOf(l, None) = <<>>
           /\ Enabled(l) # {} => First(Enabled(l)) \in Providers
           /\ \A p : /\ ModelsOf(l, p) \in Seq(Models) /\ Range(ModelsOf(l, p)) \subseteq Models
                     /\ ModelsOf(l, p) # <<>> => /\ Head(ModelsOf(l, p)) \in Range(ModelsOf(l, p))
                                                 /\ p \in Providers
<1>1. Enabled(l) \subseteq Providers  BY DEF Enabled
<1>2. Enabled(l) # {} => First(Enabled(l)) \in Providers  BY <1>1, FirstIn
<1>3. None \notin Enabled(l)  BY <1>1, AgentAssumption
<1>4. ModelsOf(l, None) = <<>>  BY <1>3 DEF ModelsOf, IsListed
<1>5. ASSUME NEW p
      PROVE  /\ ModelsOf(l, p) \in Seq(Models) /\ Range(ModelsOf(l, p)) \subseteq Models
             /\ ModelsOf(l, p) # <<>> => /\ Head(ModelsOf(l, p)) \in Range(ModelsOf(l, p))
                                         /\ p \in Providers
  <2>1. CASE p \in Enabled(l)
    <3>1. p \in Providers /\ l.providers[p] \in Entry  BY <1>1, <2>1 DEF Lists
    <3>2. ModelsOf(l, p) = l.providers[p].models  BY <2>1 DEF ModelsOf, IsListed
    <3> QED  BY <3>1, <3>2, EntryShape
  <2>2. CASE p \notin Enabled(l)
    <3>1. ModelsOf(l, p) = <<>>  BY <2>2 DEF ModelsOf, IsListed
    <3>2. <<>> \in Seq(Models) /\ Range(<<>>) = {}  BY DEF Range
    <3> QED  BY <3>1, <3>2
  <2> QED  BY <2>1, <2>2
<1> QED  BY <1>1, <1>2, <1>4, <1>5

\* Nothing is enabled in the empty list.
LEMMA EmptyList ==
    /\ NoList \in [Providers -> Entry]
    /\ \A l : l.providers = NoList => Enabled(l) = {} /\ \A p : ModelsOf(l, p) = <<>>
<1>1. [enabled |-> FALSE, models |-> <<>>] \in Entry  BY DEF Entry
<1>2. NoList \in [Providers -> Entry]  BY <1>1 DEF NoList
<1>3. ASSUME NEW l, l.providers = NoList PROVE Enabled(l) = {}
  BY <1>3 DEF Enabled, NoList
<1> QED  BY <1>2, <1>3 DEF ModelsOf, IsListed

-----------------------------------------------------------------------------
(* The automatic selection *)

\* The effects fill what is empty and change nothing else; afterwards a provider with
\* models has one selected, and a model that they select is one of the provider's.
LEMMA AutoSelected ==
    ASSUME NEW s \in Picks, NEW l \in Lists, NEW t, t = AutoSelect(s, l)
    PROVE  /\ t \in Picks /\ t.source = s.source /\ t.code = s.code
           /\ s.provider # None => t.provider = s.provider
           /\ s.model # None => t.model = s.model
           /\ t.source = "provider" /\ ModelsOf(l, t.provider) # <<>> => t.model # None
           /\ (s.model # None => s.model \in Range(ModelsOf(l, s.provider)))
                => (t.model # None => t.model \in Range(ModelsOf(l, t.provider)))
<1>1. PICK u : u = AutoProvider(s, l)  OBVIOUS
<1>2. t = AutoModel(u, l)  BY <1>1 DEF AutoSelect
<1>3. /\ u \in Picks /\ u.source = s.source /\ u.code = s.code /\ u.model = s.model
      /\ s.provider # None => u.provider = s.provider
  BY <1>1, ListShape DEF AutoProvider, Picks
<1>4. CASE u.source = "provider" /\ ModelsOf(l, u.provider) # <<>> /\ u.model = None
  <2>1. PICK m : m = Head(ModelsOf(l, u.provider))  OBVIOUS
  <2>2. m \in Range(ModelsOf(l, u.provider)) /\ m \in Models /\ m # None
    <3>1. m \in Range(ModelsOf(l, u.provider)) /\ Range(ModelsOf(l, u.provider)) \subseteq Models
      BY <1>4, <2>1, ListShape
    <3> QED  BY <3>1, AgentAssumption
  <2>3. t = [u EXCEPT !.model = m]  BY <1>2, <1>4, <2>1 DEF AutoModel
  <2>4. /\ t \in Picks /\ t.source = u.source /\ t.code = u.code /\ t.provider = u.provider
        /\ t.model = m
    BY <1>3, <2>2, <2>3 DEF Picks
  <2> QED  BY <1>3, <1>4, <2>2, <2>4
<1>5. CASE ~(u.source = "provider" /\ ModelsOf(l, u.provider) # <<>> /\ u.model = None)
  <2>1. t = u  BY <1>2, <1>5 DEF AutoModel
  <2>2. ASSUME s.model # None, s.model \in Range(ModelsOf(l, s.provider))
        PROVE  s.provider # None
    <3>1. Range(<<>>) = {}  BY DEF Range
    <3> QED  BY <2>2, <3>1, ListShape
  <2> QED  BY <1>3, <1>5, <2>1, <2>2
<1> QED  BY <1>4, <1>5


-----------------------------------------------------------------------------
(* The form of an agent *)

\* The first model of CodeAgent is one that is offered.
LEMMA FirstCodeModel == Head(CodeModels) \in Range(CodeModels)
<1>1. CodeModels \in Seq(Range(CodeModels)) /\ CodeModels # <<>>  BY AgentAssumption
<1>2. 1 \in DOMAIN CodeModels /\ Head(CodeModels) = CodeModels[1]  BY <1>1
<1> QED  BY <1>2 DEF Range

\* A form that is opened, or is not open.
LEMMA AgentStart ==
    ASSUME creating \in BOOLEAN, catalog \in [Providers -> Entry],
           list = [providers |-> NoList, loading |-> TRUE],
           creating => initial = NoDraft, ~creating => initial \in Drafts,
           draft = initial, payload = None,
           pick = Hydrate(IF creating THEN [NoDraft EXCEPT !.model = Head(CodeModels)]
                          ELSE initial),
           error = "no", stage \in {"editing", "closed"}
    PROVE  AgentInv
<1>1. /\ list \in [providers : {catalog, NoList}, loading : BOOLEAN]
      /\ list.providers = NoList /\ \A p : ModelsOf(list, p) = <<>>
  BY EmptyList
<1>2. CASE creating
  <2>1. PICK d : d = [provider |-> None, model |-> Head(CodeModels)]  OBVIOUS
  <2>2. pick = Hydrate(d)  BY <1>2, <2>1 DEF NoDraft
  <2>3. /\ pick \in Picks /\ pick.code = Head(CodeModels) /\ pick.source = "codeagent"
        /\ pick.model = None
    BY <2>1, <2>2, FirstCodeModel DEF Hydrate, Picks
  <2> QED  BY <1>1, <1>2, <2>3, FirstCodeModel
           DEF AgentInv, AgentTypeOK, FormInv, SelectionInv, DraftStaysSelected,
               SavedIsAvailable, Picks
<1>3. CASE ~creating
  <2>1. pick = Hydrate(initial) /\ initial \in Drafts  BY <1>3
  <2>2. CASE initial \in [provider : Providers, model : Models]
    <3>1. initial.provider # None  BY <2>2, AgentAssumption
    <3>2. /\ pick \in Picks /\ pick.provider = initial.provider /\ pick.model = initial.model
          /\ pick.model # None
      BY <2>1, <2>2, <3>1, FirstCodeModel, AgentAssumption DEF Hydrate, Picks
    <3> QED  BY <1>1, <1>3, <2>1, <3>1, <3>2
             DEF AgentInv, AgentTypeOK, FormInv, SelectionInv, DraftStaysSelected,
                 SavedIsAvailable, Picks
  <2>3. CASE initial \in [provider : {None}, model : Range(CodeModels) \cup {OldModel}]
    <3>1. initial.provider = None  BY <2>3
    <3>2. pick \in Picks /\ pick.code = initial.model /\ pick.source = "codeagent"
      BY <2>1, <2>3, <3>1 DEF Hydrate, Picks
    <3> QED  BY <1>1, <1>3, <2>1, <3>1, <3>2
             DEF AgentInv, AgentTypeOK, FormInv, SelectionInv, DraftStaysSelected,
                 SavedIsAvailable, Picks
  <2> QED  BY <2>1, <2>2, <2>3 DEF Drafts
<1> QED  BY <1>2, <1>3

LEMMA AgentInitially == FormsInit => AgentInv
<1>1. ASSUME AgentOpened PROVE AgentInv
  <2>1. /\ creating \in BOOLEAN /\ catalog \in [Providers -> Entry]
        /\ list = [providers |-> NoList, loading |-> TRUE]
        /\ (creating => draft = NoDraft) /\ (~creating => draft \in Drafts)
        /\ initial = draft /\ payload = None
        /\ error = "no" /\ stage = "editing"
    BY <1>1 DEF AgentOpened
  <2>2. pick = Hydrate(IF creating THEN [NoDraft EXCEPT !.model = Head(CodeModels)]
                       ELSE initial)
    BY <1>1, <2>1 DEF AgentOpened
  <2> QED  BY <2>1, <2>2, AgentStart
<1>2. ASSUME AgentClosed PROVE AgentInv
  <2>1. NoList \in [Providers -> Entry]  BY EmptyList
  <2>2. /\ creating = TRUE /\ catalog = NoList /\ list = [providers |-> NoList, loading |-> TRUE]
        /\ draft = NoDraft /\ initial = NoDraft /\ payload = None
        /\ pick = Hydrate([NoDraft EXCEPT !.model = Head(CodeModels)])
        /\ error = "no" /\ stage = "closed"
    BY <1>2 DEF AgentClosed
  <2> QED  BY <2>1, <2>2, AgentStart
<1> QED  BY <1>1, <1>2 DEF FormsInit

\* The effects run on a selection s that respects what the draft refers to and,
\* for a new agent, what is offered.
LEMMA SelectKeeps ==
    ASSUME AgentInv, NEW s \in Picks, NEW l \in Lists, pick' = AutoSelect(s, l),
           list' = l, l.providers \in {catalog, NoList},
           l.loading => l.providers = NoList,
           l = list \/ list.loading,
           chosen \subseteq chosen',
           UNCHANGED <<creating, catalog, draft, initial, payload, error, stage>>,
           s.provider = pick.provider \/ "provider" \in chosen',
           s.model = pick.model \/ "model" \in chosen',
           s.code = pick.code \/ "code" \in chosen',
           creating => /\ s.code \in Range(CodeModels)
                       /\ s.model # None => s.model \in Range(ModelsOf(l, s.provider))
    PROVE  AgentInv'
<1> USE DEF AgentInv
<1>1. PICK t : t = AutoSelect(s, l)  OBVIOUS
<1>2. /\ t \in Picks /\ t.source = s.source /\ t.code = s.code
      /\ s.provider # None => t.provider = s.provider
      /\ s.model # None => t.model = s.model
      /\ t.source = "provider" /\ ModelsOf(l, t.provider) # <<>> => t.model # None
      /\ (s.model # None => s.model \in Range(ModelsOf(l, s.provider)))
           => (t.model # None => t.model \in Range(ModelsOf(l, t.provider)))
  BY <1>1, AutoSelected
<1>3. /\ pick' = t /\ creating' = creating /\ catalog' = catalog /\ draft' = draft
      /\ initial' = initial /\ payload' = payload /\ error' = error /\ stage' = stage
  BY <1>1
<1>4. AgentTypeOK'  BY <1>2, <1>3 DEF AgentTypeOK, Picks
<1>5. FormInv'
  <2>1. l \in [providers : {catalog, NoList}, loading : BOOLEAN]  BY DEF Lists
  <2>2. payload # None /\ payload.provider # None => ~l.loading  BY DEF FormInv
  <2> QED  BY <1>2, <1>3, <2>1, <2>2 DEF FormInv
<1>6. SelectionInv'  BY <1>2, <1>3 DEF SelectionInv
<1>7. DraftStaysSelected'
  <2>1. SUFFICES ASSUME ~creating PROVE DraftStaysSelected'  BY <1>3 DEF DraftStaysSelected
  <2>2. initial \in Drafts  BY <2>1 DEF FormInv
  <2>3. initial.provider # None => initial.model # None
    BY <2>2, AgentAssumption DEF Drafts
  <2>4. ASSUME initial.provider # None, "provider" \notin chosen'
        PROVE  t.provider = initial.provider
    <3>1. pick.provider = initial.provider  BY <2>1, <2>4 DEF DraftStaysSelected
    <3> QED  BY <1>2, <2>4, <3>1
  <2>5. ASSUME initial.provider # None, "model" \notin chosen'
        PROVE  t.model = initial.model
    <3>1. pick.model = initial.model  BY <2>1, <2>5 DEF DraftStaysSelected
    <3> QED  BY <1>2, <2>3, <2>5, <3>1
  <2>6. ASSUME initial.provider = None, "code" \notin chosen'
        PROVE  t.code = initial.model
    <3>1. pick.code = initial.model  BY <2>1, <2>6 DEF DraftStaysSelected
    <3> QED  BY <1>2, <2>6, <3>1
  <2> QED  BY <1>3, <2>4, <2>5, <2>6 DEF DraftStaysSelected
<1>8. SavedIsAvailable'
  <2>1. CASE payload = None  BY <1>3, <2>1 DEF SavedIsAvailable
  <2>2. CASE payload # None /\ payload.provider = None  BY <1>3, <2>2 DEF SavedIsAvailable
  <2>3. CASE payload # None /\ payload.provider # None
    <3>1. l = list  BY <2>3 DEF FormInv
    <3> QED  BY <1>3, <2>3, <3>1 DEF SavedIsAvailable
  <2> QED  BY <2>1, <2>2, <2>3
<1> QED  BY <1>4, <1>5, <1>6, <1>7, <1>8

LEMMA ListInv ==
    ASSUME AgentInv
    PROVE  /\ list \in Lists /\ list.providers \in {catalog, NoList}
           /\ list.loading => list.providers = NoList
           /\ catalog \in [Providers -> Entry] /\ pick \in Picks
           /\ creating => /\ pick.code \in Range(CodeModels)
                          /\ pick.model # None
                               => pick.model \in Range(ModelsOf(list, pick.provider))
<1>1. NoList \in [Providers -> Entry]  BY EmptyList
<1> QED  BY <1>1 DEF AgentInv, FormInv, SelectionInv, Lists

LEMMA ProvidersKeep ==
    ASSUME AgentInv, ProvidersCome
    PROVE  AgentInv'
<1>1. PICK l \in [providers : {catalog, NoList}, loading : {FALSE}] :
         list' = l /\ pick' = AutoSelect(pick, l)
  BY DEF ProvidersCome
<1>2. l \in Lists /\ l.providers \in {catalog, NoList} /\ ~l.loading
  BY <1>1, ListInv, EmptyList DEF Lists
<1>3. list.loading /\ chosen' = chosen
      /\ UNCHANGED <<creating, catalog, draft, initial, payload, error, stage>>
  BY DEF ProvidersCome
<1>4. creating => pick.code \in Range(CodeModels) /\ pick.model = None
  <2>1. \A p : ModelsOf(list, p) = <<>>  BY <1>3, ListInv, EmptyList
  <2>2. Range(<<>>) = {}  BY DEF Range
  <2> QED  BY <2>1, <2>2, ListInv
<1> QED  BY <1>1, <1>2, <1>3, <1>4, ListInv, SelectKeeps

\* The user chooses.
LEMMA ChooseKeeps ==
    ASSUME AgentInv, NEW s \in Picks, NEW what, Choose(s, what),
           s.provider = pick.provider \/ "provider" \in what,
           s.model = pick.model \/ "model" \in what,
           s.code = pick.code \/ "code" \in what,
           creating => /\ s.code \in Range(CodeModels)
                       /\ s.model # None => s.model \in Range(ModelsOf(list, s.provider))
    PROVE  AgentInv'
<1>1. /\ chosen' = chosen \cup what /\ pick' = AutoSelect(s, list) /\ list' = list
      /\ UNCHANGED <<creating, catalog, draft, initial, payload, error, stage>>
  BY DEF Choose
<1> QED  BY <1>1, ListInv, SelectKeeps

LEMMA ChooseSourceKeeps ==
    ASSUME AgentInv, ChooseSource
    PROVE  AgentInv'
<1>1. PICK o \in {"codeagent", "provider"} : Choose([pick EXCEPT !.source = o], {})
  BY DEF ChooseSource
<1>2. PICK s : s = [pick EXCEPT !.source = o]  OBVIOUS
<1>3. /\ s \in Picks /\ s.provider = pick.provider /\ s.model = pick.model
      /\ s.code = pick.code
  BY <1>2, ListInv DEF Picks
<1>4. Choose(s, {})  BY <1>1, <1>2
<1> QED  BY <1>3, <1>4, ListInv, ChooseKeeps

LEMMA ChooseCodeKeeps ==
    ASSUME AgentInv, ChooseCodeModel
    PROVE  AgentInv'
<1>1. PICK m \in Range(CodeModels) : Choose([pick EXCEPT !.code = m], {"code"})
  BY DEF ChooseCodeModel
<1>2. PICK s : s = [pick EXCEPT !.code = m]  OBVIOUS
<1>3. /\ s \in Picks /\ s.provider = pick.provider /\ s.model = pick.model /\ s.code = m
  BY <1>2, ListInv DEF Picks
<1>4. Choose(s, {"code"})  BY <1>1, <1>2
<1> QED  BY <1>3, <1>4, ListInv, ChooseKeeps

LEMMA ChooseProviderKeeps ==
    ASSUME AgentInv, ChooseProvider
    PROVE  AgentInv'
<1>1. PICK p \in Enabled(list) :
         Choose([pick EXCEPT !.provider = p,
                             !.model = IF ModelsOf(list, p) = <<>> THEN None
                                       ELSE Head(ModelsOf(list, p))],
                {"provider", "model"})
  BY DEF ChooseProvider
<1>2. PICK m : m = IF ModelsOf(list, p) = <<>> THEN None ELSE Head(ModelsOf(list, p))  OBVIOUS
<1>3. PICK s : s = [pick EXCEPT !.provider = p, !.model = m]  OBVIOUS
<1>4. /\ p \in Providers /\ m \in Models \cup {None}
      /\ m # None => m \in Range(ModelsOf(list, p))
  BY <1>2, ListInv, ListShape
<1>5. s \in Picks /\ s.provider = p /\ s.model = m /\ s.code = pick.code
  BY <1>3, <1>4, ListInv DEF Picks
<1>6. Choose(s, {"provider", "model"})  BY <1>1, <1>2, <1>3
<1> QED  BY <1>4, <1>5, <1>6, ListInv, ChooseKeeps

LEMMA ChooseModelKeeps ==
    ASSUME AgentInv, ChooseModel
    PROVE  AgentInv'
<1>1. PICK m \in Range(ModelsOf(list, pick.provider)) :
         Choose([pick EXCEPT !.model = m], {"model"})
  BY DEF ChooseModel
<1>2. PICK s : s = [pick EXCEPT !.model = m]  OBVIOUS
<1>3. m \in Models  BY <1>1, ListInv, ListShape
<1>4. s \in Picks /\ s.provider = pick.provider /\ s.model = m /\ s.code = pick.code
  BY <1>2, <1>3, ListInv DEF Picks
<1>5. Choose(s, {"model"})  BY <1>1, <1>2
<1> QED  BY <1>1, <1>4, <1>5, ListInv, ChooseKeeps

\* What is submitted is available, since a save that is not is blocked.
LEMMA SubmitKeeps ==
    ASSUME AgentInv, SubmitAgent
    PROVE  AgentInv'
<1> USE DEF AgentInv
<1>1. /\ ~ProviderSaveBlocked /\ ~UnavailableCodeAgentModel /\ ~UnavailableProviderModel
      /\ error' = "no" /\ stage' = "saving"
      /\ UNCHANGED <<creating, catalog, list, draft, initial, pick, chosen>>
  BY DEF SubmitAgent, SaveBlocked
<1>2. PICK d : d = payload'  OBVIOUS
<1>3. d = [provider |-> IF pick.source = "provider" THEN pick.provider ELSE None,
           model    |-> IF pick.source = "provider" THEN pick.model ELSE pick.code]
  BY <1>2 DEF SubmitAgent, BuildAgentDraftPayload
<1>4. CASE pick.source = "provider"
  <2>1. /\ ~list.loading /\ IsListed(list, pick.provider)
        /\ ModelsOf(list, pick.provider) # <<>>
    BY <1>1, <1>4 DEF ProviderSaveBlocked
  <2>2. pick.model # None  BY <1>4, <2>1 DEF SelectionInv
  <2>3. pick.model \in Range(ModelsOf(list, pick.provider))
    BY <1>1, <1>4, <2>1, <2>2, ListInv DEF UnavailableProviderModel
  <2>4. pick.provider \in Providers /\ pick.model \in Models  BY <2>1, <2>3, ListInv, ListShape
  <2>5. d = [provider |-> pick.provider, model |-> pick.model]  BY <1>3, <1>4
  <2>6. d \in Drafts /\ d.provider = pick.provider /\ d.model = pick.model
    BY <2>4, <2>5 DEF Drafts
  <2>7. d.provider # None  BY <2>4, <2>6, AgentAssumption
  <2>8. FormInv'  BY <1>1, <1>2, <2>1, <2>6 DEF FormInv
  <2>9. SavedIsAvailable'  BY <1>1, <1>2, <2>3, <2>6, <2>7 DEF SavedIsAvailable
  <2> QED  BY <1>1, <2>8, <2>9 DEF AgentTypeOK, SelectionInv, DraftStaysSelected
<1>5. CASE pick.source # "provider"
  <2>1. d = [provider |-> None, model |-> pick.code]  BY <1>3, <1>5
  <2>2. pick.code \in Range(CodeModels)
    BY <1>1, <1>5, ListInv DEF UnavailableCodeAgentModel, AgentTypeOK
  <2>3. d \in Drafts /\ d.provider = None /\ d.model = pick.code  BY <2>1, <2>2 DEF Drafts
  <2>4. FormInv'  BY <1>1, <1>2, <2>3 DEF FormInv
  <2>5. SavedIsAvailable'  BY <1>1, <1>2, <2>2, <2>3 DEF SavedIsAvailable
  <2> QED  BY <1>1, <2>4, <2>5 DEF AgentTypeOK, SelectionInv, DraftStaysSelected
<1> QED  BY <1>4, <1>5

\* The steps that leave the selection, the list and what was submitted alone.
LEMMA OtherKeeps ==
    ASSUME AgentInv,
           UNCHANGED <<creating, catalog, list, initial, payload, pick, chosen>>,
           draft' \in Drafts \cup {NoDraft}, stage' \in {"closed", "editing", stage},
           error' \in {"no", "display_name", "system_prompt"}
    PROVE  AgentInv'
BY DEF AgentInv, AgentTypeOK, FormInv, SelectionInv, DraftStaysSelected, SavedIsAvailable

LEMMA SavedKeeps ==
    ASSUME AgentInv, AgentSaved
    PROVE  AgentInv'
<1>1. payload \in Drafts /\ draft \in Drafts \cup {NoDraft} /\ error' = error
  BY DEF AgentInv, FormInv, AgentTypeOK, AgentSaved
<1>2. draft' \in Drafts \cup {NoDraft} /\ stage' \in {"closed", "editing"}
  BY <1>1 DEF AgentSaved
<1> QED  BY <1>1, <1>2, OtherKeeps DEF AgentSaved, AgentInv, AgentTypeOK

\* Every step of the form of an agent keeps its invariant.
LEMMA AgentKeeps ==
    ASSUME AgentInv, AgentStep
    PROVE  AgentInv'
<1>1. CASE ProvidersCome  BY <1>1, ProvidersKeep
<1>2. CASE ChooseSource  BY <1>2, ChooseSourceKeeps
<1>3. CASE ChooseCodeModel  BY <1>3, ChooseCodeKeeps
<1>4. CASE ChooseProvider  BY <1>4, ChooseProviderKeeps
<1>5. CASE ChooseModel  BY <1>5, ChooseModelKeeps
<1>6. CASE EditTexts
  BY <1>6, OtherKeeps DEF EditTexts, AgentInv, AgentTypeOK
<1>7. CASE SubmitInvalid
  BY <1>7, OtherKeeps DEF SubmitInvalid, AgentInv, AgentTypeOK
<1>8. CASE SubmitAgent  BY <1>8, SubmitKeeps
<1>9. CASE AgentSaved  BY <1>9, SavedKeeps
<1>10. CASE CancelAgent
  BY <1>10, OtherKeeps DEF CancelAgent, AgentInv, AgentTypeOK
<1> QED  BY <1>1, <1>2, <1>3, <1>4, <1>5, <1>6, <1>7, <1>8, <1>9, <1>10 DEF AgentStep

LEMMA AgentNext == AgentInv /\ [FormsNext]_formVars => AgentInv'
<1> SUFFICES ASSUME AgentInv, [FormsNext]_formVars PROVE AgentInv'  OBVIOUS
<1>1. CASE UNCHANGED agentVars
  BY <1>1, OtherKeeps DEF agentVars, AgentInv, AgentTypeOK
<1>2. CASE AgentStep  BY <1>2, AgentKeeps
<1> QED  BY <1>1, <1>2 DEF FormsNext, formVars

\* The selection of an agent's form, what its draft refers to and what was
\* submitted fit together in every state of the form: AgentInv is inductive.
THEOREM Agent == FormsSpec => []AgentInv
BY AgentInitially, AgentNext, PTL DEF FormsSpec

\* What the loaded draft refers to stays selected until the user chooses something
\* else, whenever the list of the providers comes and whatever it holds.
THEOREM Selected == FormsSpec => []DraftStaysSelected
<1>1. AgentInv => DraftStaysSelected  BY DEF AgentInv
<1> QED  BY Agent, <1>1, PTL

\* A submitted draft refers to a model that the list of an enabled provider, or
\* CodeAgent, offers.
THEOREM Available == FormsSpec => []SavedIsAvailable
<1>1. AgentInv => SavedIsAvailable  BY DEF AgentInv
<1> QED  BY Agent, <1>1, PTL

-----------------------------------------------------------------------------
(* The forms of a server and of a provider *)

LEMMA BlankShape ==
    ASSUME NEW k \in Kinds
    PROVE  /\ BlankForm(k) \in FormStates
           /\ \A r \in Regions : BlankForm(k).text[r].as = "typed"
<1>1. Empty \in Pairs  BY DEF Empty, Pairs
<1>2. \A r \in Regions : Text("typed", Empty)
                           \in [as : {"loaded", "typed", "bad"}, pairs : Pairs]
  BY <1>1 DEF Text
<1>3. [t \in Targets |-> IF t = "type" THEN "t1" ELSE None] \in Goals  BY DEF Goals
<1>4. (IF k = "mcp" THEN "stdio" ELSE "type") \in Targets  BY DEF Targets
<1>5. BlankForm(k) \in FormStates  BY <1>2, <1>3, <1>4 DEF BlankForm, FormStates
<1>6. \A r \in Regions : BlankForm(k).text[r] = Text("typed", Empty)  BY DEF BlankForm
<1> QED  BY <1>5, <1>6 DEF Text

LEMMA RowShape ==
    ASSUME NEW k \in Kinds
    PROVE  Rows(k) \subseteq RowStates
<1>1. PICK v : v = CHOOSE x \in Values : TRUE  OBVIOUS
<1>2. v \in Values  BY <1>1, MaskAssumption
<1>3. SUFFICES ASSUME NEW s \in Rows(k) PROVE s \in RowStates  OBVIOUS
<1>4. PICK t \in TargetsOf(k), target \in {"t1", "bad"}, m \in [Regions -> [Keys -> {v, None}]],
           a \in {v, None} :
         s = [name |-> "n1", transport |-> t,
              targets |-> [u \in Targets |-> IF u = t THEN target ELSE None],
              maps |-> m, key |-> a]
  BY <1>1, <1>3 DEF Rows
<1>5. t \in Targets  BY <1>4 DEF TargetsOf, Targets
<1>6. [u \in Targets |-> IF u = t THEN target ELSE None] \in Goals  BY <1>4 DEF Goals
<1>7. m \in [Regions -> Pairs]  BY <1>2, <1>4 DEF Pairs
<1> QED  BY <1>2, <1>4, <1>5, <1>6, <1>7 DEF RowStates

\* What the server shows of a row: each value, or the placeholder that hides it.
LEMMA ShownShape ==
    ASSUME NEW k, NEW s \in RowStates
    PROVE  /\ Shown(k, s) \in RowStates
           /\ \A r \in Regions : \A x \in Keys :
                Shown(k, s).maps[r][x] \in {Mask, s.maps[r][x]}
<1>1. ASSUME NEW map \in Pairs
      PROVE  Redact(k, map) \in Pairs /\ \A x \in Keys : Redact(k, map)[x] \in {Mask, map[x]}
  BY DEF Redact, Pairs
<1>2. \A r \in Regions : s.maps[r] \in Pairs  BY DEF RowStates
<1>3. PICK maps : maps = [r \in Regions |-> Redact(k, s.maps[r])]  OBVIOUS
<1>4. maps \in [Regions -> Pairs] /\ \A r \in Regions : maps[r] = Redact(k, s.maps[r])
  BY <1>1, <1>2, <1>3
<1>5. Shown(k, s) = [s EXCEPT !.maps = maps, !.key = None]  BY <1>3 DEF Shown
<1>6. Shown(k, s) \in RowStates /\ Shown(k, s).maps = maps  BY <1>4, <1>5 DEF RowStates
<1> QED  BY <1>1, <1>2, <1>4, <1>6

LEMMA HydratedShape ==
    ASSUME NEW s \in RowStates
    PROVE  /\ Hydrated(s) \in FormStates
           /\ \A r \in Regions : Hydrated(s).text[r].pairs = s.maps[r]
<1>1. \A r \in Regions : s.maps[r] \in Pairs  BY DEF RowStates
<1>2. \A r \in Regions :
        /\ LoadedText(s.maps[r]) \in [as : {"loaded", "typed", "bad"}, pairs : Pairs]
        /\ LoadedText(s.maps[r]).pairs = s.maps[r]
  BY <1>1 DEF LoadedText, Text
<1>3. PICK text : text = [r \in Regions |-> LoadedText(s.maps[r])]  OBVIOUS
<1>4. /\ text \in [Regions -> [as : {"loaded", "typed", "bad"}, pairs : Pairs]]
      /\ \A r \in Regions : text[r].pairs = s.maps[r]
  BY <1>2, <1>3
<1>5. Hydrated(s) = [name |-> s.name, transport |-> s.transport, targets |-> s.targets,
                     text |-> text, key |-> None, clear |-> FALSE]
  BY <1>3 DEF Hydrated
<1>6. Hydrated(s) \in FormStates /\ Hydrated(s).text = text
  BY <1>4, <1>5 DEF FormStates, RowStates
<1> QED  BY <1>4, <1>6

LEMMA SentInitially == FormsInit => SentInv
<1>1. ASSUME Init PROVE SentInv
  <2>1. /\ kind \in Kinds /\ stored \in Rows(kind) \cup {None} /\ base = stored
        /\ loaded = (IF stored = None THEN None ELSE Shown(kind, stored))
        /\ form = (IF stored = None THEN BlankForm(kind) ELSE Hydrated(loaded))
        /\ phase = "editing"
    BY <1>1 DEF Init
  <2>2. CASE stored = None
    <3>1. Genuine(form)  BY <2>1, <2>2, BlankShape DEF Genuine, Creating
    <3> QED  BY <2>1, <2>2, <3>1 DEF SentInv, Creating
  <2>3. CASE stored # None
    <3>1. stored \in RowStates  BY <2>1, <2>3, RowShape
    <3>2. loaded \in RowStates /\ loaded = Shown(kind, base)  BY <2>1, <2>3, <3>1, ShownShape
    <3>3. Genuine(form)  BY <2>1, <2>3, <3>2, HydratedShape DEF Genuine
    <3> QED  BY <2>1, <3>1, <3>2, <3>3 DEF SentInv
  <2> QED  BY <2>2, <2>3
<1>2. ASSUME NoConfigForm PROVE SentInv
  <2>1. /\ kind = (CHOOSE k \in Kinds : TRUE) /\ loaded = None /\ form = BlankForm(kind)
        /\ phase = "closed"
    BY <1>2 DEF NoConfigForm
  <2>2. kind \in Kinds  BY <2>1, FormAssumption
  <2>3. Genuine(form)  BY <2>1, <2>2, BlankShape DEF Genuine, Creating
  <2> QED  BY <2>1, <2>2, <2>3 DEF SentInv, Creating
<1> QED  BY <1>1, <1>2 DEF FormsInit

\* A field changes.
LEMMA ChangeKeeps ==
    ASSUME SentInv, NEW next, NEW field, Change(next, field), Genuine(next)
    PROVE  SentInv'
<1>1. form' = next /\ UNCHANGED <<kind, stored, base, loaded, sent, phase>>
  BY DEF Change, row
<1>2. Genuine(form)'  BY <1>1 DEF Genuine, Creating
<1> QED  BY <1>1, <1>2 DEF SentInv, Genuine, Creating, Unsafe

\* A form whose texts are those of the form it was.
LEMMA SameTexts ==
    ASSUME SentInv, NEW next \in FormStates, next.text = form.text
    PROVE  Genuine(next)
BY DEF SentInv, Genuine

\* A form in which the text of region r is now t.
LEMMA NewText ==
    ASSUME SentInv, NEW r \in Regions,
           NEW t \in [as : {"loaded", "typed", "bad"}, pairs : Pairs],
           ~Creating /\ t.as = "loaded" => t.pairs = loaded.maps[r]
    PROVE  Genuine([form EXCEPT !.text[r] = t])
<1>1. form \in FormStates  BY DEF SentInv, Genuine
<1>2. PICK texts1 : texts1 = [form.text EXCEPT ![r] = t]  OBVIOUS
<1>3. /\ texts1 \in [Regions -> [as : {"loaded", "typed", "bad"}, pairs : Pairs]]
      /\ \A q \in Regions : texts1[q] = IF q = r THEN t ELSE form.text[q]
  BY <1>1, <1>2 DEF FormStates
<1>4. PICK next : next = [form EXCEPT !.text = texts1]  OBVIOUS
<1>5. next \in FormStates /\ next.text = texts1  BY <1>1, <1>3, <1>4 DEF FormStates
<1>6. Genuine(next)  BY <1>3, <1>5 DEF SentInv, Genuine
<1>7. [form EXCEPT !.text[r] = t] = next  BY <1>2, <1>4
<1> QED  BY <1>6, <1>7

LEMMA FieldsKeep ==
    ASSUME SentInv,
           EditName \/ ChooseTransport \/ EditApiKey \/ ClearApiKey \/ \E k \in Kinds : EditTarget(k)
    PROVE  SentInv'
<1>1. form \in FormStates  BY DEF SentInv, Genuine
<1>2. CASE EditName
  <2>1. PICK n \in {None, "n2"} : Change([form EXCEPT !.name = n], "name")
    BY <1>2 DEF EditName
  <2>2. PICK f : f = [form EXCEPT !.name = n]  OBVIOUS
  <2>3. f \in FormStates /\ f.text = form.text  BY <1>1, <2>2 DEF FormStates
  <2> QED  BY <2>1, <2>2, <2>3, SameTexts, ChangeKeeps
<1>3. CASE ChooseTransport
  <2>1. PICK t \in TargetsOf("mcp") : Change([form EXCEPT !.transport = t], "transport")
    BY <1>3 DEF ChooseTransport
  <2>2. PICK f : f = [form EXCEPT !.transport = t]  OBVIOUS
  <2>3. t \in Targets  BY DEF TargetsOf, Targets
  <2>4. f \in FormStates /\ f.text = form.text  BY <1>1, <2>2, <2>3 DEF FormStates
  <2> QED  BY <2>1, <2>2, <2>4, SameTexts, ChangeKeeps
<1>4. CASE EditApiKey
  <2>1. PICK v \in Values : Change([form EXCEPT !.key = v], "key")  BY <1>4 DEF EditApiKey
  <2>2. PICK f : f = [form EXCEPT !.key = v]  OBVIOUS
  <2>3. f \in FormStates /\ f.text = form.text  BY <1>1, <2>2 DEF FormStates
  <2> QED  BY <2>1, <2>2, <2>3, SameTexts, ChangeKeeps
<1>5. CASE ClearApiKey
  <2>1. Change([form EXCEPT !.clear = ~form.clear], "key")  BY <1>5 DEF ClearApiKey
  <2>2. PICK f : f = [form EXCEPT !.clear = ~form.clear]  OBVIOUS
  <2>3. f \in FormStates /\ f.text = form.text  BY <1>1, <2>2 DEF FormStates
  <2> QED  BY <2>1, <2>2, <2>3, SameTexts, ChangeKeeps
<1>6. CASE \E k \in Kinds : EditTarget(k)
  <2>1. PICK v \in {"bad", "t2", None} :
           Change([form EXCEPT !.targets[form.transport] = v], "target")
    BY <1>6 DEF EditTarget
  <2>2. PICK g : g = [form.targets EXCEPT ![form.transport] = v]  OBVIOUS
  <2>3. g \in Goals  BY <1>1, <2>2 DEF FormStates, Goals
  <2>4. PICK f : f = [form EXCEPT !.targets = g]  OBVIOUS
  <2>5. f \in FormStates /\ f.text = form.text  BY <1>1, <2>3, <2>4 DEF FormStates
  <2>6. f = [form EXCEPT !.targets[form.transport] = v]  BY <2>2, <2>4
  <2> QED  BY <2>1, <2>5, <2>6, SameTexts, ChangeKeeps
<1> QED  BY <1>2, <1>3, <1>4, <1>5, <1>6

LEMMA TextsKeep ==
    ASSUME SentInv, NEW r \in Regions,
           (\E k \in Kinds : EditText(k, r)) \/ EditTextBadly(r) \/ RestoreText(r)
    PROVE  SentInv'
<1>1. /\ form \in FormStates /\ form.text[r].pairs \in Pairs
      /\ ~Creating => loaded.maps[r] \in Pairs
  <2>1. form \in FormStates  BY DEF SentInv, Genuine
  <2>2. ~Creating => loaded \in RowStates  BY ShownShape DEF SentInv
  <2> QED  BY <2>1, <2>2 DEF FormStates, RowStates
<1>2. CASE \E k \in Kinds : EditText(k, r)
  <2>1. PICK x \in Keys, v \in Values \cup {None} \cup {form.text[r].pairs[y] : y \in Keys} :
           Change([form EXCEPT !.text[r] = Text("typed", [form.text[r].pairs EXCEPT ![x] = v])], r)
    BY <1>2 DEF EditText
  <2>2. PICK p : p = [form.text[r].pairs EXCEPT ![x] = v]  OBVIOUS
  <2>3. p \in Pairs  BY <1>1, <2>1, <2>2 DEF Pairs
  <2>4. PICK t : t = Text("typed", p)  OBVIOUS
  <2>5. t \in [as : {"loaded", "typed", "bad"}, pairs : Pairs] /\ t.as = "typed"
    BY <2>3, <2>4 DEF Text
  <2>6. Genuine([form EXCEPT !.text[r] = t])  BY <2>5, NewText
  <2> QED  BY <2>1, <2>2, <2>4, <2>6, ChangeKeeps
<1>3. CASE EditTextBadly(r)
  <2>1. PICK t : t = Text("bad", Empty)  OBVIOUS
  <2>2. t \in [as : {"loaded", "typed", "bad"}, pairs : Pairs] /\ t.as = "bad"
    BY <2>1 DEF Text, Empty, Pairs
  <2>3. Genuine([form EXCEPT !.text[r] = t])  BY <2>2, NewText
  <2> QED  BY <1>3, <2>1, <2>3, ChangeKeeps DEF EditTextBadly
<1>4. CASE RestoreText(r)
  <2>1. PICK t : t = LoadedText(loaded.maps[r])  OBVIOUS
  <2>2. ~Creating  BY <1>4 DEF RestoreText
  <2>3. t \in [as : {"loaded", "typed", "bad"}, pairs : Pairs] /\ t.pairs = loaded.maps[r]
    BY <1>1, <2>1, <2>2 DEF LoadedText, Text
  <2>4. Genuine([form EXCEPT !.text[r] = t])  BY <2>3, NewText
  <2> QED  BY <1>4, <2>1, <2>4, ChangeKeeps DEF RestoreText
<1> QED  BY <1>2, <1>3, <1>4

\* Only a form without unsafe placeholders is submitted.
LEMMA FormSubmitKeeps ==
    ASSUME SentInv, SubmitServer \/ SubmitProvider
    PROVE  SentInv'
<1>1. /\ UNCHANGED <<kind, stored, base, loaded, form>>
      /\ \/ UNCHANGED <<phase, sent>>
         \/ sent' = form /\ (ServerErrors = {} \/ ProviderErrors = {})
  BY DEF SubmitServer, SubmitProvider, Submit, row
<1>2. CASE UNCHANGED <<phase, sent>>
  BY <1>1, <1>2 DEF SentInv, Genuine, Creating, Unsafe
<1>3. CASE sent' = form /\ (ServerErrors = {} \/ ProviderErrors = {})
  <2>1. ~Creating => ~Unsafe(form)
    <3>1. ServerErrors = {} => Creating \/ ~Unsafe(form)  BY DEF ServerErrors
    <3>2. ProviderErrors = {} => Creating \/ ~Unsafe(form)  BY DEF ProviderErrors
    <3> QED  BY <1>3, <3>1, <3>2
  <2>2. (~Creating => ~Unsafe(sent))'  BY <1>1, <1>3, <2>1 DEF Creating, Unsafe
  <2>3. Genuine(sent)' /\ Genuine(form)'  BY <1>1, <1>3 DEF SentInv, Genuine, Creating
  <2> QED  BY <1>1, <2>2, <2>3 DEF SentInv, Creating
<1> QED  BY <1>1, <1>2, <1>3

\* What a save makes of a row that exists.
LEMMA SavedRow ==
    ASSUME SentInv, ~Creating, phase = "saving"
    PROVE  /\ Saved \in RowStates /\ Saved.key = SentKey
           /\ \A r \in Regions :
                Saved.maps[r] = IF ShouldOmitRedactedField(sent.text[r], loaded.maps[r])
                                THEN stored.maps[r] ELSE sent.text[r].pairs
<1>1. stored \in RowStates /\ sent \in FormStates  BY DEF SentInv, Genuine
<1>2. PICK maps : maps = [r \in Regions |->
                            IF ShouldOmitRedactedField(sent.text[r], loaded.maps[r])
                            THEN stored.maps[r] ELSE sent.text[r].pairs]
  OBVIOUS
<1>3. \A r \in Regions : stored.maps[r] \in Pairs /\ sent.text[r].pairs \in Pairs
  BY <1>1 DEF RowStates, FormStates
<1>4. maps \in [Regions -> Pairs]  BY <1>2, <1>3
<1>5. SentTargets \in Goals  BY <1>1 DEF SentTargets, FormStates, Goals
<1>6. SentKey \in Values \cup {None}  BY <1>1 DEF SentKey, FormStates, RowStates
<1>7. Saved = [stored EXCEPT !.name = sent.name, !.targets = SentTargets, !.key = SentKey,
                             !.maps = maps]
  BY <1>2 DEF Saved
<1>8. sent.name \in {"n1", "n2", None}  BY <1>1 DEF FormStates
<1>9. Saved \in RowStates /\ Saved.key = SentKey /\ Saved.maps = maps
  BY <1>1, <1>4, <1>5, <1>6, <1>7, <1>8 DEF RowStates
<1> QED  BY <1>2, <1>9

LEMMA SentNext == SentInv /\ [FormsNext]_formVars => SentInv'
<1> SUFFICES ASSUME SentInv, [FormsNext]_formVars PROVE SentInv'  OBVIOUS
<1>1. CASE UNCHANGED vars
  BY <1>1 DEF vars, row, fields, SentInv, Genuine, Creating, Unsafe
<1>2. CASE EditName \/ ChooseTransport \/ EditApiKey \/ ClearApiKey
           \/ \E k \in Kinds : EditTarget(k)
  BY <1>2, FieldsKeep
<1>3. CASE \E r \in Regions :
             (\E k \in Kinds : EditText(k, r)) \/ EditTextBadly(r) \/ RestoreText(r)
  BY <1>3, TextsKeep
<1>4. CASE SubmitServer \/ SubmitProvider  BY <1>4, FormSubmitKeeps
<1>5. CASE SaveDone
  <2>1. /\ phase = "saving" /\ stored' = Saved /\ phase' = "closed"
        /\ UNCHANGED <<kind, base, loaded, form>>
    BY <1>5 DEF SaveDone
  <2>2. ~Creating => stored' \in RowStates  BY <2>1, SavedRow
  <2> QED  BY <2>1, <2>2 DEF SentInv, Genuine, Creating
<1>6. CASE SaveFails \/ CancelServer \/ HandleCancel
  <2>1. phase' # "saving" /\ UNCHANGED <<kind, stored, base, loaded, form>>
    BY <1>6 DEF SaveFails, CancelServer, HandleCancel, row, fields
  <2> QED  BY <2>1 DEF SentInv, Genuine, Creating
<1>7. CASE OtherClient
  <2>1. UNCHANGED <<kind, base, loaded, form, sent, phase>>
    BY <1>7 DEF OtherClient, fields
  <2>2. ASSUME ~Creating PROVE stored' \in RowStates
    <3>1. stored \in RowStates  BY <2>2 DEF SentInv
    <3>2. CASE \E r \in Regions : \E k \in Keys : \E v \in Values \cup {None} :
                 stored' = [stored EXCEPT !.maps[r][k] = v]
      <4>1. PICK r \in Regions, k \in Keys, v \in Values \cup {None} :
               stored' = [stored EXCEPT !.maps[r][k] = v]
        BY <3>2
      <4>2. PICK p : p = [stored.maps[r] EXCEPT ![k] = v]  OBVIOUS
      <4>3. p \in Pairs  BY <3>1, <4>2 DEF RowStates, Pairs
      <4>4. PICK maps : maps = [stored.maps EXCEPT ![r] = p]  OBVIOUS
      <4>5. maps \in [Regions -> Pairs]  BY <3>1, <4>3, <4>4 DEF RowStates
      <4>6. stored' = [stored EXCEPT !.maps = maps]  BY <4>1, <4>2, <4>4
      <4> QED  BY <3>1, <4>5, <4>6 DEF RowStates
    <3>3. CASE \E v \in Values \cup {None} : stored' = [stored EXCEPT !.key = v]
      BY <3>1, <3>3 DEF RowStates
    <3> QED  BY <1>7, <3>2, <3>3 DEF OtherClient
  <2> QED  BY <2>1, <2>2 DEF SentInv, Genuine, Creating, Unsafe
<1> QED  BY <1>1, <1>2, <1>3, <1>4, <1>5, <1>6, <1>7 DEF FormsNext, Next, formVars

\* What is being saved is always a form that has passed the check for placeholders,
\* and a text that counts as untouched says what was loaded, whatever the user does
\* to the fields and other clients do to the row in the meantime: SentInv is
\* inductive.
THEOREM Sent == FormsSpec => []SentInv
BY SentInitially, SentNext, PTL DEF FormsSpec

\* Only an answer to a save leaves a form as saved.
LEMMA SavedByAnswer ==
    ASSUME [FormsNext]_formVars, Editing
    PROVE  SaveDone
<1>1. left' # left /\ left' = "saved"  BY DEF Editing
<1>2. Next  BY <1>1 DEF FormsNext, formVars, vars
<1>3. ~(HandleCancel \/ CancelServer)  BY <1>1 DEF HandleCancel, CancelServer
<1> QED  BY <1>1, <1>2, <1>3
         DEF Next, EditName, ChooseTransport, EditApiKey, ClearApiKey, EditTarget, EditText,
             EditTextBadly, RestoreText, Change, SubmitServer, SubmitProvider, Submit,
             SaveFails, OtherClient

\* Saving a form does what it shows: it stores what is typed, removes the lines
\* that are gone and leaves the values that stand behind placeholders.
THEOREM DoesWhatItShows == FormsSpec => SaveDoesWhatItShows
<1>1. ASSUME SentInv, [FormsNext]_formVars, Editing, NEW r \in Regions,
             stored.maps[r] = base.maps[r], NEW k \in Keys
      PROVE  LET v == sent.text[r].pairs[k] IN
             IF v # Mask THEN stored'.maps[r][k] = v
             ELSE \/ stored'.maps[r][k] = stored.maps[r][k]
                  \/ kind = "mcp" /\ loaded.maps[r][k] # Mask
  <2>1. phase = "saving" /\ stored' = Saved /\ ~Creating
    BY <1>1, SavedByAnswer DEF SaveDone, Editing
  <2>2. stored'.maps[r] = IF ShouldOmitRedactedField(sent.text[r], loaded.maps[r])
                          THEN stored.maps[r] ELSE sent.text[r].pairs
    BY <1>1, <2>1, SavedRow
  <2>3. CASE ShouldOmitRedactedField(sent.text[r], loaded.maps[r])
    <3>1. sent.text[r].pairs = loaded.maps[r]
      BY <1>1, <2>1, <2>3 DEF ShouldOmitRedactedField, SentInv, Genuine
    <3>2. base \in RowStates /\ loaded = Shown(kind, base)  BY <1>1, <2>1 DEF SentInv
    <3>3. loaded.maps[r][k] \in {Mask, base.maps[r][k]}  BY <3>2, ShownShape
    <3> QED  BY <1>1, <2>2, <2>3, <3>1, <3>3
  <2>4. CASE ~ShouldOmitRedactedField(sent.text[r], loaded.maps[r])
    <3>1. stored'.maps[r] = sent.text[r].pairs  BY <2>2, <2>4
    <3>2. ASSUME sent.text[r].pairs[k] = Mask
          PROVE  kind = "mcp" /\ loaded.maps[r][k] # Mask
      <4>1. ~Unsafe(sent)  BY <1>1, <2>1 DEF SentInv
      <4>2. CASE kind = "mcp"
        BY <1>1, <2>4, <3>2, <4>1, <4>2 DEF Unsafe, UnsafeForServer
      <4>3. CASE kind # "mcp"
        BY <1>1, <2>4, <3>2, <4>1, <4>3 DEF Unsafe, UnsafeForProvider, HasRedactedValue
      <4> QED  BY <4>2, <4>3
    <3> QED  BY <3>1, <3>2
  <2> QED  BY <2>3, <2>4
<1>2. SentInv /\ [FormsNext]_formVars
        => [Editing => \A r \in Regions : stored.maps[r] = base.maps[r] =>
              \A k \in Keys :
                 LET v == sent.text[r].pairs[k] IN
                 IF v # Mask THEN stored'.maps[r][k] = v
                 ELSE \/ stored'.maps[r][k] = stored.maps[r][k]
                      \/ kind = "mcp" /\ loaded.maps[r][k] # Mask]_vars
  BY <1>1
<1> QED  BY Sent, <1>2, PTL DEF FormsSpec, SaveDoesWhatItShows

\* Saving a form leaves the secrets alone that the user has left alone, whatever
\* other clients have made of them since.
THEOREM SecretsKept == FormsSpec => UntouchedSecretsKept
<1>1. SentInv /\ [FormsNext]_formVars
        => [Editing =>
              /\ \A r \in Regions :
                   sent.text[r].as = "loaded" /\ HasRedactedValue(loaded.maps[r])
                     => stored'.maps[r] = stored.maps[r]
              /\ kind = "llm" /\ sent.key = None /\ ~sent.clear => stored'.key = stored.key]_vars
  <2> SUFFICES ASSUME SentInv, [FormsNext]_formVars, Editing
               PROVE  /\ \A r \in Regions :
                           sent.text[r].as = "loaded" /\ HasRedactedValue(loaded.maps[r])
                             => stored'.maps[r] = stored.maps[r]
                      /\ sent.key = None /\ ~sent.clear => stored'.key = stored.key
    OBVIOUS
  <2>1. phase = "saving" /\ stored' = Saved /\ ~Creating
    BY SavedByAnswer DEF SaveDone, Editing
  <2>2. /\ stored'.key = SentKey
        /\ \A r \in Regions :
             stored'.maps[r] = IF ShouldOmitRedactedField(sent.text[r], loaded.maps[r])
                               THEN stored.maps[r] ELSE sent.text[r].pairs
    BY <2>1, SavedRow
  <2> QED  BY <2>2 DEF ShouldOmitRedactedField, SentKey
<1> QED  BY Sent, <1>1, PTL DEF FormsSpec, UntouchedSecretsKept
=============================================================================
