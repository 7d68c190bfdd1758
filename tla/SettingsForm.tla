---------------------------- MODULE SettingsForm ----------------------------
(***************************************************************************)
(* The WhatsApp page of the panel on top of the service: the cached view,  *)
(* the draft of the form, the result of the last connection test with the  *)
(* signature of the values it was made for, and the switch that pauses the *)
(* replies, which runs beside a test or a save.  An administrator in       *)
(* another window saves between any two steps of the page.                 *)
(*                                                                         *)
(* A page is ready only with a view, so its first request is the query of  *)
(* the settings; after that the form slot holds a test or a save (each     *)
(* refuses to start while the other runs) and the switch slot a pause or a *)
(* resume.  An answer may be lost on its way (AnswersLost); what the       *)
(* request did is done all the same.                                       *)
(***************************************************************************)
EXTENDS WhatsAppSettings

CONSTANTS
    Page,          \* open pages of the panel
    FormOf,        \* the slot of a page's form
    SwitchOf,      \* the slot of a page's pause switch
    Blank,         \* a secret being replaced with nothing typed yet
    AnswersLost,   \* whether answers may be lost
    OthersSave,    \* bound: what is saved in other windows
    MaxRevision    \* bound: edits of the secrets in a page, together

VARIABLES
    view,     \* view[p]: the cached settings, Absent until loaded
    draft,    \* draft[p]: what was typed; Absent fields follow the view
    revision, \* revision[p]: counts the edits of each secret
    stored,   \* stored[p]: the last test result, with its signature
    sent,     \* sent[p]: signature and values of the request of the form
    asking    \* asking[p]: the dialog that confirms a pause is open

formVars == <<view, draft, revision, stored, sent, asking>>
vars == <<row, call, view, draft, revision, stored, sent, asking>>

EmptyDraft == [ids |-> Absent, token |-> Absent, secret |-> Absent]

Signature == [ids: Ids \cup {Absent}, token: 0..MaxRevision, secret: 0..MaxRevision]
Typed == [ids: Ids \cup {Absent}, token: Tokens \cup {Absent, Blank},
          secret: Secrets \cup {Absent, Blank}]
Request == [sig: Signature, values: Typed]
Outcome == [sig: Signature, values: Typed, ok: BOOLEAN]

ASSUME FormAssumption ==
    /\ FormOf \in [Page -> Slot] /\ SwitchOf \in [Page -> Slot]
    /\ \A p, q \in Page : FormOf[p] # SwitchOf[q]
                          /\ (p # q => FormOf[p] # FormOf[q] /\ SwitchOf[p] # SwitchOf[q])
    /\ Absent \notin Request \cup Outcome
    /\ Blank \notin Tokens \cup Secrets \cup {Absent}
    /\ OthersSave \subseteq Triple
    /\ AnswersLost \in BOOLEAN /\ MaxRevision \in Nat

TypeOK ==
    /\ SettingsTypeOK
    /\ view \in [Page -> Views \cup {Absent}]
    /\ draft \in [Page -> Typed]
    /\ revision \in [Page -> [token: 0..MaxRevision, secret: 0..MaxRevision]]
    /\ stored \in [Page -> Outcome \cup {Absent}]
    /\ sent \in [Page -> Request \cup {Absent}]
    /\ asking \in [Page -> BOOLEAN]

Init ==
    /\ SettingsInit
    /\ view = [p \in Page |-> Absent]
    /\ draft = [p \in Page |-> EmptyDraft]
    /\ revision = [p \in Page |-> [token |-> 0, secret |-> 0]]
    /\ stored = [p \in Page |-> Absent]
    /\ sent = [p \in Page |-> Absent]
    /\ asking = [p \in Page |-> FALSE]

-----------------------------------------------------------------------------
Testing(p) == call[FormOf[p]].kind = "test"
Saving(p) == call[FormOf[p]].kind = "save"
Switching(p) == call[SwitchOf[p]].kind # "none"

IdsShown(p) == IF draft[p].ids # Absent THEN draft[p].ids ELSE view[p].ids

\* What the form would send, and the signature that stands for it: the ids by
\* value, a secret by the number of times it was edited.
InputOf(p) == [ids |-> IdsShown(p), token |-> draft[p].token, secret |-> draft[p].secret]

\* Variant: a secret counts as typed or not, whatever was typed.
SignatureOf_TypedOrNot(p) ==
    [ids |-> IdsShown(p),
     token |-> IF draft[p].token = Absent THEN 0 ELSE 1,
     secret |-> IF draft[p].secret = Absent THEN 0 ELSE 1]

SignatureOf(p) ==
    [ids |-> IdsShown(p),
     token |-> IF draft[p].token = Absent THEN 0 ELSE revision[p].token,
     secret |-> IF draft[p].secret = Absent THEN 0 ELSE revision[p].secret]

Changed(p) ==
    \/ IdsShown(p) # view[p].ids
    \/ draft[p].token \notin {Absent, Blank}
    \/ draft[p].secret \notin {Absent, Blank}

TestOk(p) ==
    stored[p] # Absent /\ stored[p].sig = SignatureOf(p) /\ stored[p].ok

SaveOffered(p) ==
    view[p] # Absent /\ Changed(p) /\ TestOk(p) /\ call[FormOf[p]].kind = "none"

\* A field is empty, or a secret was never configured and not typed.
LocalProblem(p) ==
    \/ IdsShown(p) = Absent
    \/ draft[p].token = Blank \/ (draft[p].token = Absent /\ ~view[p].token)
    \/ draft[p].secret = Blank \/ (draft[p].secret = Absent /\ ~view[p].secret)

Remember(p, request, ok) ==
    stored' = [stored EXCEPT ![p] = [sig |-> request.sig, values |-> request.values, ok |-> ok]]

CurrentRequest(p) == [sig |-> SignatureOf(p), values |-> InputOf(p)]

-----------------------------------------------------------------------------
\* The query of the settings when the page opens.
LoadSettings(p) ==
    /\ view[p] = Absent /\ call[FormOf[p]].kind = "none"
    /\ Begin(FormOf[p], "get", Absent)
    /\ UNCHANGED formVars

\* Fields are disabled while a save runs, not while a test does.
EditIds(p) ==
    /\ view[p] # Absent /\ ~Saving(p)
    /\ \E ids \in Ids : draft' = [draft EXCEPT ![p].ids = ids]
    /\ UNCHANGED <<row, call, view, revision, stored, sent, asking>>

\* replaceSecret, cancelSecret and setSecret: each counts as an edit.
EditToken(p) ==
    /\ view[p] # Absent /\ ~Saving(p)
    /\ revision[p].token + revision[p].secret < MaxRevision
    /\ revision' = [revision EXCEPT ![p].token = @ + 1]
    /\ \E value \in Tokens \cup {Absent, Blank} : draft' = [draft EXCEPT ![p].token = value]
    /\ UNCHANGED <<row, call, view, stored, sent, asking>>

EditSecret(p) ==
    /\ view[p] # Absent /\ ~Saving(p)
    /\ revision[p].token + revision[p].secret < MaxRevision
    /\ revision' = [revision EXCEPT ![p].secret = @ + 1]
    /\ \E value \in Secrets \cup {Absent, Blank} : draft' = [draft EXCEPT ![p].secret = value]
    /\ UNCHANGED <<row, call, view, stored, sent, asking>>

Discard(p) ==
    /\ view[p] # Absent /\ Changed(p) /\ ~Saving(p)
    /\ draft' = [draft EXCEPT ![p] = EmptyDraft]
    /\ stored' = [stored EXCEPT ![p] = Absent]
    /\ UNCHANGED <<row, call, view, revision, sent, asking>>

RunTest(p) ==
    /\ view[p] # Absent /\ call[FormOf[p]].kind = "none"
    /\ IF LocalProblem(p)
       THEN /\ Remember(p, CurrentRequest(p), FALSE)
            /\ UNCHANGED <<row, call, sent>>
       ELSE /\ Begin(FormOf[p], "test", InputOf(p))
            /\ sent' = [sent EXCEPT ![p] = CurrentRequest(p)]
            /\ stored' = [stored EXCEPT ![p] = Absent]
    /\ UNCHANGED <<view, draft, revision, asking>>

Save(p) ==
    /\ SaveOffered(p)
    /\ Begin(FormOf[p], "save", InputOf(p))
    /\ sent' = [sent EXCEPT ![p] = CurrentRequest(p)]
    /\ UNCHANGED <<view, draft, revision, stored, asking>>

\* togglePause and confirmPause: resuming acts at once, pausing asks first.
TogglePause(p) ==
    /\ view[p] # Absent /\ ~Switching(p)
    /\ IF view[p].paused
       THEN Begin(SwitchOf[p], "resume", Absent) /\ UNCHANGED asking
       ELSE asking' = [asking EXCEPT ![p] = TRUE] /\ UNCHANGED <<row, call>>
    /\ UNCHANGED <<view, draft, revision, stored, sent>>

ConfirmPause(p) ==
    /\ asking[p] /\ ~Switching(p)
    /\ Begin(SwitchOf[p], "pause", Absent)
    /\ UNCHANGED formVars

ClosePauseDialog(p) ==
    /\ asking[p] /\ ~Switching(p)
    /\ asking' = [asking EXCEPT ![p] = FALSE]
    /\ UNCHANGED <<row, call, view, draft, revision, stored, sent>>

-----------------------------------------------------------------------------
Arrives == IF AnswersLost THEN BOOLEAN ELSE {TRUE}

TakeView(p, answer) == view' = [view EXCEPT ![p] = answer.view]

\* The query of the settings settles; without a view the page only shows that.
ReceiveSettings(p) ==
    LET c == FormOf[p] IN
    /\ call[c].kind = "get" /\ Release(c)
    /\ \E arrives \in Arrives :
        IF arrives THEN TakeView(p, call[c].answer) ELSE UNCHANGED view
    /\ UNCHANGED <<draft, revision, stored, sent, asking>>

\* The result of a test is kept with the signature of the values that were sent,
\* whatever the form holds by now.  A failed request is kept as an error, or not
\* at all when the session is over.
ReceiveTest(p) ==
    LET c == FormOf[p] IN
    /\ call[c].kind = "test" /\ Release(c)
    /\ \E arrives \in Arrives :
        IF arrives THEN Remember(p, sent[p], call[c].answer.status = "ok")
        ELSE Remember(p, sent[p], FALSE) \/ UNCHANGED stored
    /\ sent' = [sent EXCEPT ![p] = Absent]
    /\ UNCHANGED <<view, draft, revision, asking>>

\* A saved view replaces the cached one and empties the form; a refusal of Meta
\* (422) is kept as a failed test; any other failure leaves the form as it is.
ReceiveSave(p) ==
    LET c == FormOf[p] IN
    /\ call[c].kind = "save" /\ Release(c)
    /\ \E arrives \in Arrives :
        \/ /\ arrives /\ call[c].answer.status = "ok"
           /\ TakeView(p, call[c].answer)
           /\ draft' = [draft EXCEPT ![p] = EmptyDraft]
           /\ stored' = [stored EXCEPT ![p] = Absent]
        \/ /\ arrives /\ call[c].answer.status = "refused"
           /\ Remember(p, sent[p], FALSE)
           /\ UNCHANGED <<view, draft>>
        \/ /\ ~arrives \/ call[c].answer.status = "badRequest"
           /\ UNCHANGED <<view, draft, stored>>
    /\ sent' = [sent EXCEPT ![p] = Absent]
    /\ UNCHANGED <<revision, asking>>

\* pauseWhatsAppReplies and resumeWhatsAppReplies put their view in the cache.
ReceiveSwitch(p) ==
    LET c == SwitchOf[p] IN
    /\ Release(c)
    /\ \E arrives \in Arrives :
        IF arrives THEN TakeView(p, call[c].answer) ELSE UNCHANGED view
    /\ asking' = [asking EXCEPT ![p] = FALSE]
    /\ UNCHANGED <<draft, revision, stored, sent>>

-----------------------------------------------------------------------------
Edit(p) == EditIds(p) \/ EditToken(p) \/ EditSecret(p) \/ Discard(p)
Click(p) ==
    LoadSettings(p) \/ RunTest(p) \/ Save(p)
    \/ TogglePause(p) \/ ConfirmPause(p) \/ ClosePauseDialog(p)
Receive(p) == ReceiveSettings(p) \/ ReceiveTest(p) \/ ReceiveSave(p) \/ ReceiveSwitch(p)

ServeAny == \E c \in Slot : Serve(c) /\ UNCHANGED formVars

\* A whole save of another window: all its values sent, tested and written.
OtherWindowSaves ==
    /\ \E v \in OthersSave \cap Accepted, known \in BOOLEAN :
        row' = SavedRow(EnsuredRow, v, v, IF known THEN v.token ELSE Absent)
    /\ UNCHANGED <<call, view, draft, revision, stored, sent, asking>>

Next ==
    \/ \E p \in Page : Edit(p) \/ Click(p) \/ Receive(p)
    \/ ServeAny
    \/ OtherWindowSaves

Spec == Init /\ [][Next]_vars

-----------------------------------------------------------------------------
\* A result shown as "the test passed", and the save it unlocks, are about the
\* very values the form holds: a late answer, a discarded draft or a secret that
\* was retyped never lends its success to other values.
SaveOfferedForTestedValues ==
    \A p \in Page : view[p] # Absent /\ TestOk(p) => stored[p].values = InputOf(p)
=============================================================================
