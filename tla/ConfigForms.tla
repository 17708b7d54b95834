----------------------------- MODULE ConfigForms -----------------------------
(***************************************************************************)
(* The forms of an MCP server and of an LLM provider (McpServerForm.tsx,   *)
(* LlmProviderForm.tsx), with the row they write. Both have two regions of *)
(* KEY=VALUE lines (env and headers, default headers and default query)    *)
(* whose secrets the server hides behind a placeholder. The other plain    *)
(* fields of the forms behave like the name.                               *)
(*                                                                         *)
(* A region's text is "loaded" if it is letter for letter the text of what *)
(* was loaded, "bad" if a line of it is not KEY=VALUE, or "typed"; pairs   *)
(* is what it parses to.                                                   *)
(***************************************************************************)
EXTENDS Integers, FiniteSets

CONSTANTS
    Kinds,       \* subset of {"mcp", "llm"}
    Keys,        \* keys of the regions
    SecretKeys,  \* keys that the server takes for secret-like (providers)
    Values,
    Mask,        \* the placeholder ********
    None,        \* no value, an empty text
    MaxEdits,    \* bound on the changes the user makes to the fields
    MaxOthers    \* bound on the changes other clients make to the row

ASSUME FormAssumption ==
    Kinds \subseteq {"mcp", "llm"} /\ Kinds # {} /\ SecretKeys \subseteq Keys
ASSUME EditAssumption == MaxEdits \in Nat /\ MaxOthers \in Nat
ASSUME MaskAssumption ==
    Mask \notin Values \cup {None} /\ None \notin Values /\ Values # {}

VARIABLES
    kind,      \* which of the two forms
    stored,    \* the row, or None before it is created
    base,      \* the row when the form was opened
    loaded,    \* the row as the server showed it to the form
    form,      \* the fields of the form
    snapshot,  \* initialSnapshotRef
    sent,      \* the fields that were submitted
    errors,    \* fieldErrors
    phase,     \* "closed", "editing", "saving"
    left,      \* how the form was left: "saved", "asked" or "silently"
    edits, others

row    == <<stored, base, loaded>>
fields == <<form, snapshot, sent, errors>>
vars   == <<kind, row, fields, phase, left, edits, others>>

Regions == {"first", "second"}
Maps    == [Keys -> Values \cup {None}]
Empty   == [k \in Keys |-> None]

\* What a server runs or where it is, and the type of a provider.
TargetsOf(k) == IF k = "mcp" THEN {"stdio", "http"} ELSE {"type"}
Targets == {"stdio", "http", "type"}

-----------------------------------------------------------------------------
(* Texts *)

Text(as, pairs) == [as |-> as, pairs |-> pairs]

\* keyValueMapToText.
LoadedText(map) == Text("loaded", map)

\* redact_mapping of the servers, _mask_mapping of the providers.
Redact(k, map) ==
    [x \in Keys |-> IF map[x] # None /\ (k = "mcp" \/ x \in SecretKeys) THEN Mask ELSE map[x]]

Shown(k, s) == [s EXCEPT !.maps = [r \in Regions |-> Redact(k, s.maps[r])], !.key = None]

HasRedactedValue(map) == \E x \in Keys : map[x] = Mask

ShouldOmitRedactedField(text, original) == HasRedactedValue(original) /\ text.as = "loaded"

\* Mutant: a region is sent with its placeholders.
UnsafeForServerNever(text, original) == FALSE

\* hasUnsafeRedactedPlaceholder of the two forms.
UnsafeForServer(text, original) ==
    /\ ~ShouldOmitRedactedField(text, original)
    /\ \E x \in Keys : text.pairs[x] = Mask /\ original[x] = Mask

UnsafeForProvider(text, original) ==
    HasRedactedValue(text.pairs) /\ ~ShouldOmitRedactedField(text, original)

Unsafe(f) == \E r \in Regions :
    IF kind = "mcp" THEN UnsafeForServer(f.text[r], loaded.maps[r])
                    ELSE UnsafeForProvider(f.text[r], loaded.maps[r])

-----------------------------------------------------------------------------
(* Opening the form *)

BlankForm(k) ==
    [name |-> None, transport |-> IF k = "mcp" THEN "stdio" ELSE "type",
     targets |-> [t \in Targets |-> IF t = "type" THEN "t1" ELSE None],
     text |-> [r \in Regions |-> Text("typed", Empty)], key |-> None, clear |-> FALSE]

Hydrated(s) ==
    [name |-> s.name, transport |-> s.transport, targets |-> s.targets,
     text |-> [r \in Regions |-> LoadedText(s.maps[r])], key |-> None, clear |-> FALSE]

\* The rows the form may find, with one value wherever there is one. The type of
\* a provider may be unsupported today.
Rows(k) ==
    LET v == CHOOSE v \in Values : TRUE IN
    {[name |-> "n1", transport |-> t,
      targets |-> [u \in Targets |-> IF u = t THEN target ELSE None],
      maps |-> m, key |-> a] :
        t \in TargetsOf(k), target \in IF k = "mcp" THEN {"t1"} ELSE {"t1", "bad"},
        m \in [Regions -> [Keys -> {v, None}]],
        a \in IF k = "mcp" THEN {None} ELSE {v, None}}

Init ==
    /\ kind \in Kinds
    /\ stored \in Rows(kind) \cup {None} /\ base = stored
    /\ loaded = (IF stored = None THEN None ELSE Shown(kind, stored))
    /\ form = (IF stored = None THEN BlankForm(kind) ELSE Hydrated(loaded))
    /\ snapshot = form /\ sent = None
    /\ errors = {} /\ phase = "editing" /\ left = "not"
    /\ edits = 0 /\ others = 0

Creating == loaded = None

-----------------------------------------------------------------------------
(* The user. Nothing is disabled while a save is pending but its button. *)

\* A field of the form changes; the form of a server clears the field's error.
Change(next, field) ==
    /\ phase # "closed" /\ edits < MaxEdits
    /\ edits' = edits + 1
    /\ form' = next /\ form' # form
    /\ errors' = IF kind = "mcp" THEN errors \ {field} ELSE errors
    /\ UNCHANGED <<kind, row, snapshot, sent, phase, left, others>>

EditName == \E n \in {None, "n2"} : Change([form EXCEPT !.name = n], "name")

EditTarget(k) ==
    /\ kind = k
    /\ \E v \in {"bad", "t2"} \cup (IF k = "mcp" THEN {None} ELSE {}) :
         Change([form EXCEPT !.targets[form.transport] = v], "target")

\* The transport of a server cannot be changed once it has been created.
ChooseTransport ==
    /\ kind = "mcp" /\ Creating
    /\ \E t \in TargetsOf("mcp") : Change([form EXCEPT !.transport = t], "transport")

\* The user changes a line, with a value or a placeholder that is shown, rewrites
\* the lines without a change of meaning, spoils them, or restores what was loaded.
EditText(k, r) ==
    /\ kind = k
    /\ \E x \in Keys : \E v \in Values \cup {None} \cup {form.text[r].pairs[y] : y \in Keys} :
         Change([form EXCEPT !.text[r] = Text("typed", [@.pairs EXCEPT ![x] = v])], r)

EditTextBadly(r)  == Change([form EXCEPT !.text[r] = Text("bad", Empty)], r)
RestoreText(r)    == ~Creating /\ Change([form EXCEPT !.text[r] = LoadedText(loaded.maps[r])], r)

EditApiKey == /\ kind = "llm"
              /\ \E v \in Values : Change([form EXCEPT !.key = v], "key")

ClearApiKey == kind = "llm" /\ ~Creating /\ Change([form EXCEPT !.clear = ~@], "key")

-----------------------------------------------------------------------------
(* Submitting *)

Valid(t, v) == v # None /\ (t = "stdio" \/ v # "bad")

\* validateForm and the placeholders: the first error is the one that is shown.
ServerErrors ==
    IF form.name = None THEN {"name"}
    ELSE IF ~Valid(form.transport, form.targets[form.transport]) THEN {"target"}
    ELSE IF form.text["first"].as = "bad" THEN {"first"}
    ELSE IF form.text["second"].as = "bad" THEN {"second"}
    ELSE IF ~Creating /\ Unsafe(form) THEN {"global"}
    ELSE {}

ProviderErrors ==
    IF form.text["first"].as = "bad" THEN {"first"}
    ELSE IF form.text["second"].as = "bad" THEN {"second"}
    ELSE IF form.name = None THEN {"name"}
    ELSE IF ~Valid("type", form.targets["type"]) THEN {"target"}
    ELSE IF ~Creating /\ Unsafe(form) THEN {"global"}
    ELSE {}

\* handleSubmit up to the call; the snapshot is that of the fields submitted.
Submit(k, problems) ==
    /\ kind = k /\ phase = "editing"
    /\ errors' = problems
    /\ IF problems = {} THEN phase' = "saving" /\ sent' = form
       ELSE UNCHANGED <<phase, sent>>
    /\ UNCHANGED <<kind, row, form, left, edits, others>>

SubmitServer == Submit("mcp", ServerErrors) /\ UNCHANGED snapshot

SubmitProvider == Submit("llm", ProviderErrors) /\ UNCHANGED snapshot

\* Only the target of the transport is sent, and null for the other one.
SentTargets == [t \in Targets |-> IF t = sent.transport THEN sent.targets[t] ELSE None]

\* Mutant: a save without a new key clears the key.
SentKeyOrNone == sent.key

\* The key is sent when it is typed, or null to clear it.
SentKey == IF sent.key # None THEN sent.key
           ELSE IF sent.clear THEN None
           ELSE stored.key

\* The server changes the fields of the payload and no others.
Saved ==
    IF Creating
    THEN [name |-> sent.name, transport |-> sent.transport, targets |-> SentTargets,
          maps |-> [r \in Regions |-> sent.text[r].pairs], key |-> sent.key]
    ELSE [stored EXCEPT
            !.name = sent.name, !.targets = SentTargets, !.key = SentKey,
            !.maps = [r \in Regions |->
                        IF ShouldOmitRedactedField(sent.text[r], loaded.maps[r])
                        THEN stored.maps[r] ELSE sent.text[r].pairs]]

\* The call succeeds: the page is left.
SaveDone ==
    /\ phase = "saving"
    /\ stored' = Saved
    /\ snapshot' = IF kind = "llm" THEN sent ELSE snapshot
    /\ phase' = "closed" /\ left' = "saved"
    /\ UNCHANGED <<kind, base, loaded, form, sent, errors, edits, others>>

\* The call is refused or lost: the form stays as it is.
SaveFails ==
    /\ phase = "saving"
    /\ phase' = "editing" /\ sent' = None
    /\ UNCHANGED <<kind, row, form, snapshot, errors, left, edits, others>>

Dirty == form # snapshot

\* The cancel buttons, also while a save is pending; only the form of a provider
\* asks, if it is dirty.
CancelServer ==
    /\ kind = "mcp" /\ phase # "closed"
    /\ phase' = "closed" /\ left' = "silently"
    /\ UNCHANGED <<kind, row, fields, edits, others>>

HandleCancel ==
    /\ kind = "llm" /\ phase # "closed"
    /\ phase' = "closed" /\ left' = (IF Dirty THEN "asked" ELSE "silently")
    /\ UNCHANGED <<kind, row, fields, edits, others>>

\* Another client of the API changes the row meanwhile.
OtherClient ==
    /\ stored # None /\ others < MaxOthers /\ phase # "closed"
    /\ others' = others + 1
    /\ \/ \E r \in Regions : \E k \in Keys : \E v \in Values \cup {None} :
            stored' = [stored EXCEPT !.maps[r][k] = v]
       \/ kind = "llm" /\ \E v \in Values \cup {None} : stored' = [stored EXCEPT !.key = v]
    /\ UNCHANGED <<kind, base, loaded, fields, phase, left, edits>>

-----------------------------------------------------------------------------

Next == \/ EditName \/ ChooseTransport \/ EditApiKey \/ ClearApiKey
        \/ \E k \in Kinds : EditTarget(k)
        \/ \E r \in Regions : \/ \E k \in Kinds : EditText(k, r)
                              \/ EditTextBadly(r) \/ RestoreText(r)
        \/ SubmitServer \/ SubmitProvider \/ SaveDone \/ SaveFails
        \/ CancelServer \/ HandleCancel \/ OtherClient

Spec == Init /\ [][Next]_vars

-----------------------------------------------------------------------------
(* Properties *)

\* The shape of the variables.
TypeOK ==
    /\ kind \in Kinds
    /\ stored # None =>
         /\ stored.name \in {"n1", "n2"} /\ stored.transport \in TargetsOf(kind)
         /\ stored.maps \in [Regions -> [Keys -> Values \cup {None, Mask}]]
         /\ stored.key \in Values \cup {None}
    /\ \A r \in Regions : form.text[r].as \in {"loaded", "typed", "bad"}
    /\ errors \subseteq {"name", "target", "first", "second", "global"}
    /\ Cardinality(errors) <= 1
    /\ phase \in {"closed", "editing", "saving"}
    /\ left \in {"not", "saved", "asked", "silently"}

Editing == ~Creating /\ left' = "saved" /\ left = "not"

\* A save does what the form shows, if nobody else has changed the region since it
\* was opened: a value is stored as typed, a line that is gone is removed, and a
\* placeholder stands for the value behind it, which stays. (In the form of a
\* server a placeholder under a key that had none is what NoPlaceholderStored is
\* about.)
SaveDoesWhatItShows ==
    [][Editing => \A r \in Regions : stored.maps[r] = base.maps[r] =>
         \A k \in Keys :
            LET v == sent.text[r].pairs[k] IN
            IF v # Mask THEN stored'.maps[r][k] = v
            ELSE \/ stored'.maps[r][k] = stored.maps[r][k]
                 \/ kind = "mcp" /\ loaded.maps[r][k] # Mask]_vars

\* Saving a form does not undo what other clients have done to secrets the user
\* has left alone: a region with placeholders that is as it was loaded, and an
\* API key that is neither typed nor cleared.
UntouchedSecretsKept ==
    [][Editing =>
         /\ \A r \in Regions :
              sent.text[r].as = "loaded" /\ HasRedactedValue(loaded.maps[r])
                => stored'.maps[r] = stored.maps[r]
         /\ kind = "llm" /\ sent.key = None /\ ~sent.clear => stored'.key = stored.key]_vars

\* No sequence of edits stores the placeholder in place of a secret.
NoPlaceholderStored ==
    stored # None => \A r \in Regions : \A k \in Keys : stored.maps[r][k] # Mask

-----------------------------------------------------------------------------
(* What makes the saves do so *)

Pairs == [Keys -> Values \cup {None, Mask}]
Goals == [Targets -> {"t1", "t2", "bad", None}]
RowStates  == [name : {"n1", "n2", None}, transport : Targets, targets : Goals,
               maps : [Regions -> Pairs], key : Values \cup {None}]
FormStates == [name : {"n1", "n2", None}, transport : Targets, targets : Goals,
               text : [Regions -> [as : {"loaded", "typed", "bad"}, pairs : Pairs]],
               key : Values \cup {None}, clear : BOOLEAN]

\* A text that counts as the loaded one says what was loaded.
Genuine(f) ==
    /\ f \in FormStates
    /\ ~Creating => \A r \in Regions :
         f.text[r].as = "loaded" => f.text[r].pairs = loaded.maps[r]

\* What was loaded shows the row as it was; what is being saved is a form that has
\* passed the check for placeholders, and whose untouched texts say what was loaded.
SentInv ==
    /\ kind \in Kinds
    /\ ~Creating => /\ stored \in RowStates /\ base \in RowStates
                    /\ loaded = Shown(kind, base)
    /\ Genuine(form)
    /\ phase = "saving" => Genuine(sent) /\ (~Creating => ~Unsafe(sent))

=============================================================================
