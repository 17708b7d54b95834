-------------------------------- MODULE Forms --------------------------------
(***************************************************************************)
(* The configuration forms of one browser, of which one is open.           *)
(***************************************************************************)
EXTENDS ConfigForms, Sequences

\* See AgentForm.
CONSTANTS Providers, Models, CodeModels, OldModel, MaxChoices
VARIABLES creating, catalog, list, draft, initial, payload, pick, texts, view, error, stage,
          chosen, choices

INSTANCE AgentForm

ASSUME AgentAssumption ==
    /\ Providers \subseteq Nat /\ None \notin Providers \cup Models
    /\ CodeModels \in Seq(Range(CodeModels)) /\ CodeModels # <<>>

agentVars == <<creating, catalog, list, draft, initial, payload, pick, texts, view, error,
               stage, chosen, choices>>
formVars  == <<vars, agentVars>>

NoConfigForm ==
    /\ kind = CHOOSE k \in Kinds : TRUE
    /\ stored = None /\ base = None /\ loaded = None
    /\ form = BlankForm(kind) /\ snapshot = form /\ sent = None /\ errors = {}
    /\ phase = "closed" /\ left = "not" /\ edits = 0 /\ others = 0

FormsInit == (Init /\ AgentClosed) \/ (NoConfigForm /\ AgentOpened)

FormsNext == (Next /\ UNCHANGED agentVars) \/ (AgentStep /\ UNCHANGED vars)

FormsSpec == FormsInit /\ [][FormsNext]_formVars

\* The shape of the variables of all the forms.
FormsTypeOK == TypeOK /\ AgentTypeOK

=============================================================================
